---- MODULE Spec2Model ----
(***************************************************************************)
(* HTTPProxyProcessor of internal/dag/httpproxy_processor.go: one Run over *)
(* a snapshot of HTTPProxy documents.  The recursion of computeRoutes and  *)
(* of processHTTPProxyTCPProxy is an explicit stack of frames; the         *)
(* builder's virtual hosts and the status writer's commits are state.      *)
(*                                                                         *)
(* Strings that the code only compares are TLA+ strings.  A path (prefix   *)
(* or replacement) is a sequence of one-character strings, so that         *)
(* concatenation and strings.TrimRight are computed.  A document key is    *)
(* the string "namespace/name", which is also how the code formats it.     *)
(*                                                                         *)
(* Optional fields of the API that the snapshots below leave unset         *)
(* (header conditions, header policies, timeout, retry, load balancer and  *)
(* health check policies, upstream validation, websockets) are not         *)
(* carried: the code's branches for them are the nil branches.             *)
(***************************************************************************)
EXTENDS Integers, Sequences, FiniteSets, TLC

VARIABLES
    source,      \* p.builder.Source: httpproxies, RootNamespaces, secrets, services
    config,      \* the processor's DisablePermitInsecure and FallbackCertificate
    phase,       \* position in Run
    todo,        \* the rest of the slice computeHTTPProxies ranges over
    computed,    \* the documents computeHTTPProxy has been called with
    stack,       \* call frames, innermost last
    orphaned,    \* p.orphaned
    statuses,    \* per document, the values of every commit, in order
    vhosts,      \* builder: fqdn -> insecure virtual host
    svhosts      \* builder: fqdn -> secure virtual host

vars == <<source, config, phase, todo, computed, stack, orphaned, statuses, vhosts, svhosts>>

(***************************************************************************)
(* Small helpers on sequences and sets.                                    *)
(***************************************************************************)
Range(s) == {s[i] : i \in 1..Len(s)}

NoDuplicates(s) == \A i, j \in 1..Len(s) : i # j => s[i] # s[j]

Last(s) == s[Len(s)]

Front(s) == SubSeq(s, 1, Len(s) - 1)

\* every sequence that lists the elements of S once each
RECURSIVE Perms(_)
Perms(S) ==
    IF S = {} THEN {<<>>}
    ELSE UNION {{<<x>> \o p : p \in Perms(S \ {x})} : x \in S}

RECURSIVE Flatten(_)
Flatten(ss) == IF ss = <<>> THEN <<>> ELSE Head(ss) \o Flatten(Tail(ss))

\* sequences over S of length 0..n
SeqsUpTo(S, n) == UNION {[1..k -> S] : k \in 0..n}

(***************************************************************************)
(* Document keys.  types.NamespacedName{Namespace, Name}, written          *)
(* "namespace/name" by the code's fmt.Sprintf("%s/%s", ...).               *)
(***************************************************************************)
Key(namespace, name) == namespace \o "/" \o name

\* the keys the snapshots use, in the order sort.Strings gives them
KeyOrder == <<"a/l1", "a/l2", "a/l3", "a/r1", "b/r2">>

\* sort.Strings on a set of keys
SortStrings(S) == SelectSeq(KeyOrder, LAMBDA k : k \in S)

(***************************************************************************)
(* The API objects (projcontour.HTTPProxy and its parts).  A nil pointer   *)
(* is a record whose present field is FALSE; a nil string pointer is "".   *)
(***************************************************************************)
NoClientValidation == [present |-> FALSE, CACertificate |-> ""]

NoTLS ==
    [present |-> FALSE, SecretName |-> "", Passthrough |-> FALSE,
     EnableFallbackCertificate |-> FALSE, ClientValidation |-> NoClientValidation]

TLS(secretName, passthrough, fallback, clientCA) ==
    [present |-> TRUE, SecretName |-> secretName, Passthrough |-> passthrough,
     EnableFallbackCertificate |-> fallback,
     ClientValidation |-> [present |-> clientCA # "", CACertificate |-> clientCA]]

NoVirtualHost == [present |-> FALSE, Fqdn |-> "", TLS |-> NoTLS]

VirtualHost(fqdn, tls) == [present |-> TRUE, Fqdn |-> fqdn, TLS |-> tls]

NoHeader == [Name |-> "", Exact |-> ""]

\* projcontour.MatchCondition
MatchCondition(prefix) == [Prefix |-> prefix, Header |-> NoHeader]

\* projcontour.Include
Include(namespace, name, conditions) ==
    [Namespace |-> namespace, Name |-> name, Conditions |-> conditions]

\* projcontour.Service
Service(name, port, mirror, protocol) ==
    [Name |-> name, Port |-> port, Mirror |-> mirror, Protocol |-> protocol]

\* projcontour.ReplacePrefix
ReplacePrefix(prefix, replacement) == [Prefix |-> prefix, Replacement |-> replacement]

\* projcontour.Route
Route(conditions, permitInsecure, services, replacements) ==
    [Conditions |-> conditions, PermitInsecure |-> permitInsecure,
     Services |-> services, PrefixReplacements |-> replacements]

NoTCPInclude == [present |-> FALSE, Namespace |-> "", Name |-> ""]

TCPInclude(namespace, name) == [present |-> TRUE, Namespace |-> namespace, Name |-> name]

NoTCPProxy ==
    [present |-> FALSE, Services |-> <<>>, Include |-> NoTCPInclude,
     IncludesDeprecated |-> NoTCPInclude]

TCPProxy(services, include, deprecated) ==
    [present |-> TRUE, Services |-> services, Include |-> include,
     IncludesDeprecated |-> deprecated]

\* projcontour.HTTPProxy
HTTPProxy(namespace, name, virtualhost, includes, routes, tcpproxy) ==
    [Namespace |-> namespace, Name |-> name, VirtualHost |-> virtualhost,
     Includes |-> includes, Routes |-> routes, TCPProxy |-> tcpproxy]

KeyOf(doc) == Key(doc.Namespace, doc.Name)

(***************************************************************************)
(* Paths as sequences of characters.                                       *)
(***************************************************************************)
Slash == <<"/">>

\* strings.TrimRight(s, "/")
RECURSIVE TrimRight(_)
TrimRight(s) ==
    IF s # <<>> /\ Last(s) = "/" THEN TrimRight(Front(s)) ELSE s

\* strings.TrimSpace(s) == "" for the strings of the snapshots, where a blank
\* string is "" or " "
isBlank(s) == s \in {"", " "}

\* strings.Contains(host, "*"): the wildcard host of the snapshots
ContainsWildcard(host) == host = "*.com"

(***************************************************************************)
(* The status writer (§4.5 of the specification; its code is not among the *)
(* sources).  A writer buffers values for one object; commit hands them to *)
(* the builder.  statuses keeps every commit, so that nothing here decides *)
(* which of several commits for one document the builder retains.          *)
(***************************************************************************)
StatusValid == "valid"

StatusInvalid == "invalid"

StatusOrphaned == "orphaned"

NoDescription == [msg |-> "", args |-> <<>>]

Description(msg, args) == [msg |-> msg, args |-> args]

EmptyValues == [status |-> "", description |-> NoDescription, vhost |-> ""]

\* WithObject(obj): a new writer for obj (the commit handle is Commit on it)
WithObject(obj) == [obj |-> obj, values |-> EmptyValues]

WithVhost(sw, host) == [sw EXCEPT !.values.vhost = host]

SetInvalid(sw, msg, args) ==
    [sw EXCEPT !.values.status = StatusInvalid, !.values.description = Description(msg, args)]

SetValid(sw) ==
    [sw EXCEPT !.values.status = StatusValid,
               !.values.description = Description("valid HTTPProxy", <<>>)]

Commit(st, sw) == [st EXCEPT ![sw.obj] = Append(@, sw.values)]

(***************************************************************************)
(* The snapshot source and the builder lookups (§6 of the specification;   *)
(* their code is not among the sources).                                   *)
(***************************************************************************)
\* Source.LookupSecret(name, validSecret) succeeds
LookupSecretOK(src, secretKey) == secretKey \in src.secrets

\* Source.DelegationPermitted(secret, namespace): within the secret's own
\* namespace, or delegated to the consumer's namespace
DelegationPermitted(src, secretNamespace, secretKey, namespace) ==
    \/ secretNamespace = namespace
    \/ <<secretKey, namespace>> \in src.delegations

\* builder.lookupService(m, port) succeeds
LookupServiceOK(src, namespace, name, port) == <<Key(namespace, name), port>> \in src.services

(***************************************************************************)
(* Conditions (§4.2 of the specification; conditions.go is not among the   *)
(* sources).                                                               *)
(***************************************************************************)
\* pathMatchConditionsValid(conds): a prefix, when given, starts with "/"
pathMatchConditionsValid(conds) ==
    \A i \in 1..Len(conds) : conds[i].Prefix = <<>> \/ Head(conds[i].Prefix) = "/"

\* mergePathMatchConditions(conds): the prefixes concatenated left to right,
\* "/" when there is none; always a prefix condition
mergePathMatchConditions(conds) ==
    LET prefix == Flatten([i \in 1..Len(conds) |-> conds[i].Prefix])
    IN  [kind |-> "prefix", Prefix |-> IF prefix = <<>> THEN Slash ELSE prefix]

\* prefixReplacementsAreValid(replacements): no prefix is replaced twice
prefixReplacementsAreValid(replacements) ==
    \A i, j \in 1..Len(replacements) :
        i # j => replacements[i].Prefix # replacements[j].Prefix

(***************************************************************************)
(* The graph's Route and Cluster.  origin is not a field of the code's     *)
(* Route: it records which source route, reached along which chain of      *)
(* documents and with which composed conditions, the Route was built from. *)
(***************************************************************************)
NoMirrorPolicy == [present |-> FALSE, Upstream |-> "", Protocol |-> ""]

Cluster(upstream, protocol) == [present |-> TRUE, Upstream |-> upstream, Protocol |-> protocol]

HasPathPrefix(r) == r.PathMatchCondition.kind = "prefix"

\* routeEnforceTLS determines if the route should redirect the user to a
\* secure TLS listener
MutRouteEnforceTLS(enforceTLS, permitInsecure) == enforceTLS

routeEnforceTLS(enforceTLS, permitInsecure) == enforceTLS /\ ~permitInsecure

NoError == NoDescription

\* getProtocol(service, s): the override when it is one of h2c, h2, tls; the
\* upstream service's protocol (none, in the snapshots) without an override
getProtocolOK(service) == service.Protocol \in {"", "h2c", "h2", "tls"}

\* a plausible slip: the check of lines 400-403 is left out, and a later
\* mirror replaces the earlier one
RECURSIVE MutAddServices(_, _, _, _)
MutAddServices(src, namespace, r, services) ==
    IF services = <<>> THEN [err |-> NoError, route |-> r]
    ELSE LET service == Head(services)
             c == Cluster(Key(namespace, service.Name), service.Protocol)
         IN  IF service.Port < 1 \/ service.Port > 65535
             THEN [err |-> Description("service %q: port must be in the range 1-65535",
                                       <<service.Name>>), route |-> r]
             ELSE IF ~LookupServiceOK(src, namespace, service.Name, service.Port)
             THEN [err |-> Description("Spec.Routes unresolved service reference: %s",
                                       <<Key(namespace, service.Name)>>), route |-> r]
             ELSE IF ~getProtocolOK(service)
             THEN [err |-> Description("unsupported protocol: %v", <<service.Protocol>>),
                   route |-> r]
             ELSE IF service.Mirror
             THEN MutAddServices(src, namespace, [r EXCEPT !.MirrorPolicy = c], Tail(services))
             ELSE MutAddServices(src, namespace, [r EXCEPT !.Clusters = Append(@, c)],
                                 Tail(services))

\* computeRoutes, lines 347-411: the services of one route, in order
RECURSIVE AddServices(_, _, _, _)
AddServices(src, namespace, r, services) ==
    IF services = <<>> THEN [err |-> NoError, route |-> r]
    ELSE LET service == Head(services)
             c == Cluster(Key(namespace, service.Name), service.Protocol)
         IN  IF service.Port < 1 \/ service.Port > 65535
             THEN [err |-> Description("service %q: port must be in the range 1-65535",
                                       <<service.Name>>), route |-> r]
             ELSE IF ~LookupServiceOK(src, namespace, service.Name, service.Port)
             THEN [err |-> Description("Spec.Routes unresolved service reference: %s",
                                       <<Key(namespace, service.Name)>>), route |-> r]
             ELSE IF ~getProtocolOK(service)
             THEN [err |-> Description("unsupported protocol: %v", <<service.Protocol>>),
                   route |-> r]
             ELSE IF service.Mirror /\ r.MirrorPolicy.present
             THEN [err |-> Description("only one service per route may be nominated as mirror",
                                       <<>>), route |-> r]
             ELSE IF service.Mirror
             THEN AddServices(src, namespace, [r EXCEPT !.MirrorPolicy = c], Tail(services))
             ELSE AddServices(src, namespace, [r EXCEPT !.Clusters = Append(@, c)],
                              Tail(services))

\* computeRoutes, lines 325-343: the replacement whose prefix is the routing
\* prefix, else the default (empty prefix) replacement, else none
PrefixRewriteFor(routingPrefix, replacements) ==
    LET exact == {i \in 1..Len(replacements) :
                    Len(replacements[i].Prefix) > 0 /\ routingPrefix = replacements[i].Prefix}
        first == IF exact = {} THEN <<>>
                 ELSE replacements[CHOOSE i \in exact : \A j \in exact : i <= j].Replacement
        dflt == {i \in 1..Len(replacements) : Len(replacements[i].Prefix) = 0}
    IN  IF Len(first) # 0 THEN first
        ELSE IF dflt = {} THEN <<>>
        ELSE replacements[CHOOSE i \in dflt : \A j \in dflt : i <= j].Replacement

\* computeRoutes, lines 269-412: one route of proxy, under the conditions and
\* the ancestor chain of this invocation
BuildRoute(src, cfg, doc, index, conditions, visited, enforceTLS) ==
    LET route == doc.Routes[index]
        conds == conditions \o route.Conditions
        r == [PathMatchCondition |-> mergePathMatchConditions(conds),
              HTTPSUpgrade |-> routeEnforceTLS(enforceTLS,
                                   route.PermitInsecure /\ ~cfg.DisablePermitInsecure),
              PrefixRewrite |-> <<>>,
              Clusters |-> <<>>,
              MirrorPolicy |-> NoMirrorPolicy,
              origin |-> [proxy |-> KeyOf(doc), index |-> index,
                          visited |-> visited, conds |-> conds]]
        rr == IF Len(route.PrefixReplacements) > 0
              THEN [r EXCEPT !.PrefixRewrite =
                        PrefixRewriteFor(r.PathMatchCondition.Prefix, route.PrefixReplacements)]
              ELSE r
    IN  IF ~pathMatchConditionsValid(route.Conditions)
        THEN [err |-> Description("route: %s", <<"prefix conditions must start with /">>),
              route |-> r]
        ELSE IF Len(route.Services) < 1
        THEN [err |-> Description("route.services must have at least one entry", <<>>),
              route |-> r]
        ELSE IF Len(route.PrefixReplacements) > 0 /\ ~HasPathPrefix(r)
        THEN [err |-> Description("cannot specify prefix replacements without a prefix condition",
                                  <<>>), route |-> r]
        ELSE IF Len(route.PrefixReplacements) > 0
                /\ ~prefixReplacementsAreValid(route.PrefixReplacements)
        THEN [err |-> Description("duplicate replacement prefix", <<>>), route |-> r]
        ELSE AddServices(src, doc.Namespace, rr, route.Services)

\* computeRoutes, lines 268-413: the loop over proxy.Spec.Routes; the first
\* route in error ends it
RECURSIVE BuildRoutes(_, _, _, _, _, _, _, _)
BuildRoutes(src, cfg, doc, index, conditions, visited, enforceTLS, routes) ==
    IF index > Len(doc.Routes) THEN [err |-> NoError, routes |-> routes]
    ELSE LET b == BuildRoute(src, cfg, doc, index, conditions, visited, enforceTLS)
         IN  IF b.err # NoError THEN [err |-> b.err, routes |-> <<>>]
             ELSE BuildRoutes(src, cfg, doc, index + 1, conditions, visited, enforceTLS,
                              Append(routes, b.route))

(***************************************************************************)
(* expandPrefixMatches.  The code ranges over a Go map of groups, so the   *)
(* order of the groups in the result is any order: the operator takes the  *)
(* order as a parameter.  Within a Run every PathMatchCondition is a       *)
(* prefix condition (lines 321-324), so the branch of line 643 is not      *)
(* taken there; a call of the function by itself may take it.              *)
(***************************************************************************)
GroupKey(r) ==
    IF r.PathMatchCondition.Prefix # Slash
    THEN TrimRight(r.PathMatchCondition.Prefix)
    ELSE r.PathMatchCondition.Prefix

PrefixCondition(prefix) == [kind |-> "prefix", Prefix |-> prefix]

\* a path condition that is not a *PrefixMatchCondition
ExactCondition(path) == [kind |-> "exact", Path |-> path]

\* lines 641-647: the type assertion of line 647 is reached for every route,
\* the routes of line 644 included, and panics on the first route whose path
\* condition is not a prefix condition
TypeAssertionPanics(routes) == \E i \in 1..Len(routes) : ~HasPathPrefix(routes[i])

\* a plausible slip: the rewrite of the added route is not given its slash
MutExpandGroup(prefix, routes) ==
    IF Len(routes) = 1
       /\ Len(routes[1].PrefixRewrite) # 0
       /\ routes[1].PathMatchCondition.Prefix # Slash
    THEN LET trimmed == TrimRight(routes[1].PrefixRewrite)
             newRoute == [routes[1] EXCEPT
                            !.PrefixRewrite = trimmed,
                            !.PathMatchCondition = PrefixCondition(prefix \o Slash)]
             first == [routes[1] EXCEPT
                            !.PrefixRewrite = IF Len(trimmed) = 0 THEN Slash ELSE trimmed,
                            !.PathMatchCondition = PrefixCondition(prefix)]
         IN  <<first, newRoute>>
    ELSE routes

\* lines 660-704: what one group contributes to expandedRoutes
ExpandGroup(prefix, routes) ==
    IF Len(routes) = 1
       /\ Len(routes[1].PrefixRewrite) # 0
       /\ routes[1].PathMatchCondition.Prefix # Slash
    THEN LET trimmed == TrimRight(routes[1].PrefixRewrite)
             newRoute == [routes[1] EXCEPT
                            !.PrefixRewrite = trimmed \o Slash,
                            !.PathMatchCondition = PrefixCondition(prefix \o Slash)]
             first == [routes[1] EXCEPT
                            !.PrefixRewrite = IF Len(trimmed) = 0 THEN Slash ELSE trimmed,
                            !.PathMatchCondition = PrefixCondition(prefix)]
         IN  <<first, newRoute>>
    ELSE routes

\* lines 649-655: the orders in which the range over prefixedRoutes, a Go
\* map, may visit its keys
GroupOrders(routes) ==
    UNION {Perms(keys) : keys \in {{GroupKey(routes[i]) : i \in 1..Len(routes)}}}

\* expandPrefixMatches when the range of line 655 visits the groups in
\* order (the groups are taken as one value, computed once)
expandPrefixMatches(routes, order) ==
    CHOOSE expanded \in
        {Flatten(groups) :
            groups \in {<<>> \o [i \in 1..Len(order) |->
                ExpandGroup(order[i],
                            SelectSeq(routes, LAMBDA r : GroupKey(r) = order[i]))]}} : TRUE

(***************************************************************************)
(* The builder's virtual hosts (lookupVirtualHost, lookupSecureVirtualHost *)
(* and addRoute; §3 and §6 of the specification, their code is not among   *)
(* the sources): keyed by fqdn, allocated on first reference, each holding *)
(* an ordered list of routes.                                              *)
(***************************************************************************)
NoTCP == [present |-> FALSE, Clusters |-> <<>>]

NewVirtualHost == [routes |-> <<>>]

NewSecureVirtualHost ==
    [routes |-> <<>>, Secret |-> "", FallbackCertificate |-> "",
     DownstreamValidation |-> "", TCPProxy |-> NoTCP]

\* the map m with the host allocated as fresh when it is not there yet
Lookup(m, host, fresh) == IF host \in DOMAIN m THEN m ELSE m @@ (host :> fresh)

lookupVirtualHost(m, host) == Lookup(m, host, NewVirtualHost)

lookupSecureVirtualHost(m, host) == Lookup(m, host, NewSecureVirtualHost)

\* addRoutes(vhost, routes) on the virtual host of host
addRoutes(m, host, routes) == [m EXCEPT ![host].routes = @ \o routes]

(***************************************************************************)
(* validHTTPProxies, lines 519-551.                                        *)
(***************************************************************************)
Docs(src) == DOMAIN src.httpproxies

IsRoot(src, k) == src.httpproxies[k].VirtualHost.present

Roots(src) == {k \in Docs(src) : IsRoot(src, k)}

Leaves(src) == Docs(src) \ Roots(src)

\* a plausible slip: the roots are grouped after the namespace check, so that
\* only roots of permitted namespaces count for an fqdn
MutFqdnHTTPProxies(src, fqdn) ==
    {k \in Roots(src) :
        /\ src.httpproxies[k].VirtualHost.Fqdn = fqdn
        /\ \/ Len(src.RootNamespaces) = 0
           \/ \E i \in 1..Len(src.RootNamespaces) :
                 src.RootNamespaces[i] = src.httpproxies[k].Namespace}

\* fqdnHTTPProxies[fqdn]
FqdnHTTPProxies(src, fqdn) ==
    {k \in Roots(src) : src.httpproxies[k].VirtualHost.Fqdn = fqdn}

FqdnOf(src, k) == src.httpproxies[k].VirtualHost.Fqdn

\* a plausible slip: the default case of the switch also keeps proxies[0]
MutValidRoots(src) ==
    {k \in Roots(src) :
        \/ Cardinality(FqdnHTTPProxies(src, FqdnOf(src, k))) = 1
        \/ SortStrings(FqdnHTTPProxies(src, FqdnOf(src, k)))[1] = k}

\* the roots of case 1 of the switch of line 532
ValidRoots(src) ==
    {k \in Roots(src) : Cardinality(FqdnHTTPProxies(src, FqdnOf(src, k))) = 1}

\* the roots of the default case
ConflictingRoots(src) == Roots(src) \ ValidRoots(src)

\* lines 537-545: the writer committed for a root whose fqdn is used twice
ConflictMessage(src, k) ==
    Description("fqdn %q is used in multiple HTTPProxies: %s",
                <<FqdnOf(src, k)>> \o SortStrings(FqdnHTTPProxies(src, FqdnOf(src, k))))

ConflictWriter(src, k) ==
    LET d == ConflictMessage(src, k)
    IN  SetInvalid(WithVhost(WithObject(k), FqdnOf(src, k)), d.msg, d.args)

\* a plausible slip: the roots are put ahead of the leaves
MutValidSlices(src) ==
    {rs \o ls : ls \in Perms(Leaves(src)), rs \in Perms(ValidRoots(src))}

\* the slices validHTTPProxies can return: the leaves in the order the map
\* gives them, then the roots of the fqdns used once, in the order the map
\* of fqdns gives them
ValidSlices(src) ==
    {ls \o rs : ls \in Perms(Leaves(src)), rs \in Perms(ValidRoots(src))}

(***************************************************************************)
(* computeHTTPProxy, lines 88-180: the checks of a root before its         *)
(* TCPProxy and its routes.  The result names the error (NoError when      *)
(* there is none), whether TLS is enabled, and what was attached to the    *)
(* secure virtual host before the checks ended.                            *)
(***************************************************************************)
\* rootAllowed, lines 554-564
rootAllowed(src, namespace) ==
    \/ Len(src.RootNamespaces) = 0
    \/ \E i \in 1..Len(src.RootNamespaces) : src.RootNamespaces[i] = namespace

Attach(secret, fallback, dv) ==
    [attached |-> TRUE, Secret |-> secret, FallbackCertificate |-> fallback,
     DownstreamValidation |-> dv]

NoAttach ==
    [attached |-> FALSE, Secret |-> "", FallbackCertificate |-> "", DownstreamValidation |-> ""]

Checked(err, tlsEnabled, attach) == [err |-> err, tlsEnabled |-> tlsEnabled, attach |-> attach]

\* k8s.NamespacedNameFrom(name, k8s.DefaultNamespace(namespace)), line 124:
\* a name may carry its namespace; "b/cert" is the one of the snapshots
\* that does
SecretNamespace(name, namespace) == IF name = "b/cert" THEN "b" ELSE namespace

SecretKey(name, namespace) == IF name = "b/cert" THEN name ELSE Key(namespace, name)

\* a plausible slip: the check of lines 141-144 is left out
MutFallbackWithValidation(tls) == FALSE

\* line 141: FallbackCertificate and ClientValidation are both enabled
FallbackWithValidation(tls) == tls.EnableFallbackCertificate /\ tls.ClientValidation.present

\* lines 111-180
TLSCheck(src, cfg, doc) ==
    LET tls == doc.VirtualHost.TLS
        secretName == SecretKey(tls.SecretName, doc.Namespace)
        fb == cfg.FallbackCertificate
        fbKey == Key(fb.Namespace, fb.Name)
        caKey == Key(doc.Namespace, tls.ClientValidation.CACertificate)
    IN  IF ~tls.present THEN Checked(NoError, FALSE, NoAttach)
        ELSE IF ~isBlank(tls.SecretName) /\ tls.Passthrough
        THEN Checked(Description("Spec.VirtualHost.TLS: both Passthrough and SecretName were specified", <<>>),
                     FALSE, NoAttach)
        ELSE IF isBlank(tls.SecretName) /\ ~tls.Passthrough
        THEN Checked(Description("Spec.VirtualHost.TLS: neither Passthrough nor SecretName were specified", <<>>),
                     FALSE, NoAttach)
        ELSE IF tls.Passthrough
        THEN IF tls.ClientValidation.present
             THEN Checked(Description("Spec.VirtualHost.TLS passthrough cannot be combined with tls.clientValidation", <<>>),
                          TRUE, NoAttach)
             ELSE Checked(NoError, TRUE, NoAttach)
        ELSE IF ~LookupSecretOK(src, secretName)
        THEN Checked(Description("Spec.VirtualHost.TLS Secret %q is invalid: %s",
                                 <<tls.SecretName, "Secret not found">>), TRUE, NoAttach)
        ELSE IF ~DelegationPermitted(src, SecretNamespace(tls.SecretName, doc.Namespace),
                                     secretName, doc.Namespace)
        THEN Checked(Description("Spec.VirtualHost.TLS Secret %q certificate delegation not permitted",
                                 <<tls.SecretName>>), TRUE, NoAttach)
        ELSE IF FallbackWithValidation(tls)
        THEN Checked(Description("Spec.Virtualhost.TLS fallback & client validation are incompatible together", <<>>),
                     TRUE, Attach(secretName, "", ""))
        ELSE IF tls.EnableFallbackCertificate /\ ~fb.present
        THEN Checked(Description("Spec.Virtualhost.TLS enabled fallback but the fallback Certificate Secret is not configured in Contour configuration file", <<>>),
                     TRUE, Attach(secretName, "", ""))
        ELSE IF tls.EnableFallbackCertificate /\ ~LookupSecretOK(src, fbKey)
        THEN Checked(Description("Spec.Virtualhost.TLS Secret %q fallback certificate is invalid: %s",
                                 <<fbKey, "Secret not found">>),
                     TRUE, Attach(secretName, "", ""))
        ELSE IF tls.EnableFallbackCertificate
                /\ ~DelegationPermitted(src, fb.Namespace, fbKey, doc.Namespace)
        THEN Checked(Description("Spec.VirtualHost.TLS fallback Secret %q is not configured for certificate delegation",
                                 <<fbKey>>),
                     TRUE, Attach(secretName, "", ""))
        ELSE IF tls.ClientValidation.present /\ caKey \notin src.cas
        THEN Checked(Description("Spec.VirtualHost.TLS client validation is invalid: %s",
                                 <<caKey>>),
                     TRUE, Attach(secretName, "", ""))
        ELSE Checked(NoError, TRUE,
                     Attach(secretName,
                            IF tls.EnableFallbackCertificate THEN fbKey ELSE "",
                            IF tls.ClientValidation.present THEN caKey ELSE ""))

\* lines 88-190, up to the call of processHTTPProxyTCPProxy
RootCheck(src, cfg, doc) ==
    LET host == doc.VirtualHost.Fqdn
        t == TLSCheck(src, cfg, doc)
    IN  IF ~rootAllowed(src, doc.Namespace)
        THEN Checked(Description("root HTTPProxy cannot be defined in this namespace", <<>>),
                     FALSE, NoAttach)
        ELSE IF isBlank(host)
        THEN Checked(Description("Spec.VirtualHost.Fqdn must be specified", <<>>), FALSE, NoAttach)
        ELSE IF ContainsWildcard(host)
        THEN Checked(Description("Spec.VirtualHost.Fqdn %q cannot use wildcards", <<host>>),
                     FALSE, NoAttach)
        ELSE IF Len(doc.Routes) = 0 /\ Len(doc.Includes) = 0 /\ ~doc.TCPProxy.present
        THEN Checked(Description("HTTPProxy.Spec must have at least one Route, Include, or a TCPProxy", <<>>),
                     FALSE, NoAttach)
        ELSE IF t.err # NoError THEN t
        ELSE IF doc.TCPProxy.present /\ ~t.tlsEnabled
        THEN Checked(Description("Spec.TCPProxy requires that either Spec.TLS.Passthrough or Spec.TLS.SecretName be set", <<>>),
                     t.tlsEnabled, t.attach)
        ELSE t

\* lines 136-138, 164, 174 on the builder's secure virtual hosts
AttachSecure(m, host, attach) ==
    IF ~attach.attached THEN m
    ELSE [lookupSecureVirtualHost(m, host) EXCEPT
              ![host].Secret = attach.Secret,
              ![host].FallbackCertificate = attach.FallbackCertificate,
              ![host].DownstreamValidation = attach.DownstreamValidation]

(***************************************************************************)
(* Call frames.  fn is the function the frame runs, pc where it stands:    *)
(* "enter" before its first statement, "includes" in computeRoutes' loop   *)
(* over the includes, "called" while a callee runs, "return" when it has   *)
(* returned (routes and ok then hold what it returns).  sw is the writer   *)
(* the frame was called with: a pointer in the code, so what the callee    *)
(* sets on it is what its caller commits.                                  *)
(***************************************************************************)
Frame(fn, pc, proxy, sw, conditions, visited, enforceTLS, host) ==
    [fn |-> fn, pc |-> pc, proxy |-> proxy, sw |-> sw, conditions |-> conditions,
     visited |-> visited, enforceTLS |-> enforceTLS, host |-> host,
     routes |-> <<>>, i |-> 1, ok |-> TRUE]

Top == stack[Len(stack)]

Caller == stack[Len(stack) - 1]

\* the stack with its innermost frame replaced
SetTop(f) == [stack EXCEPT ![Len(stack)] = f]

\* a frame that has returned what `return nil` / `return false` returns,
\* with d set on its writer
Failed(f, d) ==
    [f EXCEPT !.sw = SetInvalid(f.sw, d.msg, d.args), !.routes = <<>>, !.ok = FALSE,
              !.pc = "return"]

\* no snapshot nests calls deeper than this; it only stops a walk that
\* would not end by itself
MaxDepth == Cardinality(Docs(source)) + 3

(***************************************************************************)
(* Run, lines 49-59.                                                       *)
(***************************************************************************)
Run ==
    /\ phase = "start"
    /\ orphaned' = {}
    /\ phase' = "validHTTPProxies"
    /\ UNCHANGED <<source, config, todo, computed, stack, statuses, vhosts, svhosts>>

\* computeHTTPProxies, line 73: the call of validHTTPProxies
RECURSIVE CommitAll(_, _)
CommitAll(st, sws) ==
    IF sws = <<>> THEN st ELSE CommitAll(Commit(st, Head(sws)), Tail(sws))

ValidHTTPProxies ==
    /\ phase = "validHTTPProxies"
    /\ \E valid \in ValidSlices(source) : todo' = valid
    /\ statuses' = CommitAll(statuses,
           [i \in 1..Cardinality(ConflictingRoots(source)) |->
               ConflictWriter(source, SortStrings(ConflictingRoots(source))[i])])
    /\ phase' = "computeHTTPProxies"
    /\ UNCHANGED <<source, config, computed, stack, orphaned, vhosts, svhosts>>

(***************************************************************************)
(* computeHTTPProxy, lines 78-190: from its call for the next proxy of the *)
(* slice to its first return or to the call of processHTTPProxyTCPProxy    *)
(* or of computeRoutes.                                                    *)
(***************************************************************************)
\* processHTTPProxyTCPProxy(sw, proxy, nil, host)
TCPCall(proxy, sw, visited, host) ==
    Frame("processHTTPProxyTCPProxy", "enter", proxy, sw, <<>>, visited, FALSE, host)

\* computeRoutes(sw, proxy, conditions, visited, enforceTLS)
RoutesCall(proxy, sw, conditions, visited, enforceTLS) ==
    Frame("computeRoutes", "enter", proxy, sw, conditions, visited, enforceTLS, "")

ComputeHTTPProxy ==
    /\ phase = "computeHTTPProxies"
    /\ stack = <<>>
    /\ todo # <<>>
    /\ LET proxy == Head(todo)
           doc == source.httpproxies[proxy]
           host == doc.VirtualHost.Fqdn
           c == RootCheck(source, config, doc)
           sw0 == WithObject(proxy)
           sw == IF rootAllowed(source, doc.Namespace) /\ ~isBlank(host)
                 THEN WithVhost(sw0, host) ELSE sw0
           me == Frame("computeHTTPProxy", "called", proxy, sw, <<>>, <<>>, c.tlsEnabled, host)
       IN  /\ todo' = Tail(todo)
           /\ computed' = computed \cup {proxy}
           /\ IF ~doc.VirtualHost.present
              THEN \* lines 82-86: setOrphaned, and the deferred commit
                   /\ orphaned' = orphaned \cup {proxy}
                   /\ statuses' = Commit(statuses, sw0)
                   /\ UNCHANGED <<stack, svhosts>>
              ELSE /\ svhosts' = AttachSecure(svhosts, host, c.attach)
                   /\ orphaned' = orphaned
                   /\ IF c.err # NoError
                      THEN /\ statuses' = Commit(statuses, SetInvalid(sw, c.err.msg, c.err.args))
                           /\ stack' = stack
                      ELSE /\ statuses' = statuses
                           /\ stack' = <<me,
                                  IF doc.TCPProxy.present
                                  THEN TCPCall(proxy, sw, <<>>, host)
                                  ELSE RoutesCall(proxy, sw, <<>>, <<>>, c.tlsEnabled)>>
    /\ UNCHANGED <<source, config, phase, vhosts>>

(***************************************************************************)
(* processHTTPProxyTCPProxy, lines 425-514.                                *)
(***************************************************************************)
\* lines 436-439: the singular include is preferred over the plural one
TCPProxyInclude(tcpproxy) ==
    IF tcpproxy.Include.present THEN tcpproxy.Include ELSE tcpproxy.IncludesDeprecated

\* lines 472-478: the key of the document an include names
IncludeKey(include, namespace) ==
    Key(IF include.Namespace = "" THEN namespace ELSE include.Namespace, include.Name)

\* lines 448-454: the first service that the builder cannot resolve, 0 if none
FirstUnresolved(src, namespace, services) ==
    LET bad == {i \in 1..Len(services) :
                   ~LookupServiceOK(src, namespace, services[i].Name, services[i].Port)}
    IN  IF bad = {} THEN 0 ELSE CHOOSE i \in bad : \A j \in bad : i <= j

\* a plausible slip: the cycle check of lines 498-504 looks at the root of
\* the chain only
MutTCPCycle(dest, visited) == visited # <<>> /\ visited[1] = dest

\* lines 498-504: dest is one of the documents of the chain
TCPCycle(dest, visited) == \E i \in 1..Len(visited) : visited[i] = dest

\* a plausible slip: dest is not appended to the path of the message
MutTCPCycleMessage(dest, visited) ==
    Description("tcpproxy include creates a cycle: %s", visited)

\* lines 494-501: the message of a cycle of TCPProxy includes
TCPCycleMessage(dest, visited) ==
    Description("tcpproxy include creates a cycle: %s", Append(visited, dest))

\* lines 426-509: from the entry of the function to its first return or to
\* its recursive call
ProcessHTTPProxyTCPProxy ==
    /\ stack # <<>>
    /\ Top.fn = "processHTTPProxyTCPProxy"
    /\ Top.pc = "enter"
    /\ LET f == Top
           doc == source.httpproxies[f.proxy]
           tcpproxy == doc.TCPProxy
           visited == Append(f.visited, f.proxy)
           include == TCPProxyInclude(tcpproxy)
           m == IncludeKey(include, doc.Namespace)
           bad == FirstUnresolved(source, doc.Namespace, tcpproxy.Services)
           clusters == [i \in 1..Len(tcpproxy.Services) |->
                           Cluster(Key(doc.Namespace, tcpproxy.Services[i].Name), "")]
       IN  IF ~tcpproxy.present
           THEN \* nothing to do
                /\ stack' = SetTop([f EXCEPT !.ok = TRUE, !.pc = "return"])
                /\ UNCHANGED <<orphaned, svhosts>>
           ELSE IF Len(tcpproxy.Services) > 0 /\ include.present
           THEN /\ stack' = SetTop(Failed(f, Description(
                       "tcpproxy: cannot specify services and include in the same httpproxy", <<>>)))
                /\ UNCHANGED <<orphaned, svhosts>>
           ELSE IF Len(tcpproxy.Services) > 0 /\ bad # 0
           THEN /\ stack' = SetTop(Failed(f, Description(
                       "Spec.TCPProxy unresolved service reference: %s",
                       <<Key(doc.Namespace, tcpproxy.Services[bad].Name)>>)))
                /\ UNCHANGED <<orphaned, svhosts>>
           ELSE IF Len(tcpproxy.Services) > 0
           THEN /\ svhosts' = [lookupSecureVirtualHost(svhosts, f.host) EXCEPT
                                  ![f.host].TCPProxy = [present |-> TRUE, Clusters |-> clusters]]
                /\ stack' = SetTop([f EXCEPT !.ok = TRUE, !.pc = "return"])
                /\ UNCHANGED orphaned
           ELSE IF ~include.present
           THEN /\ stack' = SetTop(Failed(f, Description(
                       "tcpproxy: either services or inclusion must be specified", <<>>)))
                /\ UNCHANGED <<orphaned, svhosts>>
           ELSE IF m \notin Docs(source)
           THEN /\ stack' = SetTop(Failed(f, Description(
                       "tcpproxy: include %s/%s not found", <<m>>)))
                /\ UNCHANGED <<orphaned, svhosts>>
           ELSE IF IsRoot(source, m)
           THEN /\ stack' = SetTop(Failed(f, Description(
                       "root httpproxy cannot delegate to another root httpproxy", <<>>)))
                /\ UNCHANGED <<orphaned, svhosts>>
           ELSE IF TCPCycle(m, visited)
           THEN \* dest is no longer an orphan, then the cycle is found
                /\ orphaned' = orphaned \ {m}
                /\ stack' = SetTop(Failed(f, TCPCycleMessage(m, visited)))
                /\ UNCHANGED svhosts
           ELSE \* follow the link and process the target tcpproxy
                /\ Len(stack) < MaxDepth
                /\ orphaned' = orphaned \ {m}
                /\ stack' = Append(SetTop([f EXCEPT !.pc = "called"]),
                                   TCPCall(m, WithObject(m), visited, f.host))
                /\ UNCHANGED svhosts
    /\ UNCHANGED <<source, config, phase, todo, computed, statuses, vhosts>>

\* lines 509-513 in the caller, itself processHTTPProxyTCPProxy: the callee
\* has returned ok; its writer is the one of line 507
TCPProxyReturn ==
    /\ Len(stack) >= 2
    /\ Top.fn = "processHTTPProxyTCPProxy"
    /\ Top.pc = "return"
    /\ Caller.fn = "processHTTPProxyTCPProxy"
    /\ LET sw == IF Top.ok THEN SetValid(Top.sw) ELSE Top.sw
       IN  /\ statuses' = Commit(statuses, sw)
           /\ stack' = [Front(stack) EXCEPT ![Len(stack) - 1] =
                            [Caller EXCEPT !.ok = Top.ok, !.pc = "return"]]
    /\ UNCHANGED <<source, config, phase, todo, computed, orphaned, vhosts, svhosts>>

\* lines 187-192 in computeHTTPProxy: processHTTPProxyTCPProxy has returned
TCPProxyDone ==
    /\ Len(stack) >= 2
    /\ Top.fn = "processHTTPProxyTCPProxy"
    /\ Top.pc = "return"
    /\ Caller.fn = "computeHTTPProxy"
    /\ IF ~Top.ok
       THEN \* return, and the deferred commit of line 80
            /\ statuses' = Commit(statuses, Top.sw)
            /\ stack' = <<>>
       ELSE /\ statuses' = statuses
            /\ stack' = <<[Caller EXCEPT !.sw = Top.sw],
                          RoutesCall(Caller.proxy, Top.sw, <<>>, <<>>, Caller.enforceTLS)>>
    /\ UNCHANGED <<source, config, phase, todo, computed, orphaned, vhosts, svhosts>>

(***************************************************************************)
(* computeRoutes, lines 215-419.                                           *)
(***************************************************************************)
\* includeMatchConditionsIdentical, lines 750-764: each include against the
\* one before it
includeMatchConditionsIdentical(includes) ==
    \E i \in 2..Len(includes) :
        \E a \in 1..Len(includes[i].Conditions), b \in 1..Len(includes[i - 1].Conditions) :
            /\ includes[i].Conditions[a].Prefix = includes[i - 1].Conditions[b].Prefix
            /\ includes[i].Conditions[a].Header = includes[i - 1].Conditions[b].Header

\* a plausible slip: the cycle check of lines 216-227 looks at the root of
\* the chain only
MutInVisited(proxy, visited) == visited # <<>> /\ visited[1] = proxy

\* lines 216-227: proxy is one of the documents of the ancestor chain
InVisited(proxy, visited) == \E i \in 1..Len(visited) : visited[i] = proxy

\* lines 218-224: the message of a delegation cycle
CycleMessage(proxy, visited) ==
    Description("include creates a delegation cycle: %s", Append(visited, proxy))

\* a plausible slip: the check of lines 250-253 is left out
MutDelegateIsRoot(src, delegate) == FALSE

\* lines 250-253: the delegate has a VirtualHost
DelegateIsRoot(src, delegate) == IsRoot(src, delegate)

\* a plausible slip: the conditions of the ancestors are dropped
MutIncludeConditions(conditions, include) == include.Conditions

\* line 261: append(conditions, include.Conditions...)
IncludeConditions(conditions, include) == conditions \o include.Conditions

\* a plausible slip: the delegate is left in the orphan set
MutNotOrphaned(orph, delegate) == orph

\* line 265: delete(p.orphaned, ...)
NotOrphaned(orph, delegate) == orph \ {delegate}

\* lines 216-236: the entry of computeRoutes
ComputeRoutes ==
    /\ stack # <<>>
    /\ Top.fn = "computeRoutes"
    /\ Top.pc = "enter"
    /\ LET f == Top
           doc == source.httpproxies[f.proxy]
       IN  stack' = SetTop(
               IF InVisited(f.proxy, f.visited)
               THEN Failed(f, CycleMessage(f.proxy, f.visited))
               ELSE IF includeMatchConditionsIdentical(doc.Includes)
               THEN Failed([f EXCEPT !.visited = Append(f.visited, f.proxy)],
                           Description("duplicate conditions defined on an include", <<>>))
               ELSE [f EXCEPT !.visited = Append(f.visited, f.proxy), !.pc = "includes"])
    /\ UNCHANGED <<source, config, phase, todo, computed, orphaned, statuses, vhosts, svhosts>>

\* lines 239-261: the next include of the loop, up to the recursive call
ComputeRoutesInclude ==
    /\ stack # <<>>
    /\ Top.fn = "computeRoutes"
    /\ Top.pc = "includes"
    /\ Top.i <= Len(source.httpproxies[Top.proxy].Includes)
    /\ LET f == Top
           doc == source.httpproxies[f.proxy]
           include == doc.Includes[f.i]
           namespace == IF include.Namespace = "" THEN doc.Namespace ELSE include.Namespace
           delegate == Key(namespace, include.Name)
       IN  IF delegate \notin Docs(source)
           THEN stack' = SetTop(Failed(f, Description("include %s/%s not found", <<delegate>>)))
           ELSE IF DelegateIsRoot(source, delegate)
           THEN stack' = SetTop(Failed(f, Description(
                    "root httpproxy cannot delegate to another root httpproxy", <<>>)))
           ELSE IF ~pathMatchConditionsValid(include.Conditions)
           THEN stack' = SetTop(Failed(f, Description(
                    "include: %s", <<"prefix conditions must start with /">>)))
           ELSE /\ Len(stack) < MaxDepth
                /\ stack' = Append(SetTop([f EXCEPT !.pc = "called"]),
                                   RoutesCall(delegate, WithObject(delegate),
                                              IncludeConditions(f.conditions, include),
                                              f.visited, f.enforceTLS))
    /\ UNCHANGED <<source, config, phase, todo, computed, orphaned, statuses, vhosts, svhosts>>

\* a plausible slip: the routes of the include are put before those that
\* the caller holds
MutIncludedFirst(caller, callee) ==
    [caller EXCEPT !.routes = callee.routes \o @, !.i = @ + 1, !.pc = "includes"]

\* a plausible slip: the failure of the include is taken for the caller's
MutIncludedTaints(caller, callee) ==
    IF callee.ok
    THEN [caller EXCEPT !.routes = @ \o callee.routes, !.i = @ + 1, !.pc = "includes"]
    ELSE Failed(caller, callee.sw.values.description)

\* line 261 and the loop of line 239 in the caller: the routes the callee
\* returned are appended, whatever the callee set on its own writer, and
\* the loop goes on with the next include
Included(caller, callee) ==
    [caller EXCEPT !.routes = @ \o callee.routes, !.i = @ + 1, !.pc = "includes"]

\* lines 261-265 in the caller, itself computeRoutes: the callee has returned
\* its routes
ComputeRoutesIncluded ==
    /\ Len(stack) >= 2
    /\ Top.fn = "computeRoutes"
    /\ Top.pc = "return"
    /\ Caller.fn = "computeRoutes"
    /\ stack' = [Front(stack) EXCEPT ![Len(stack) - 1] = Included(Caller, Top)]
    /\ statuses' = Commit(statuses, Top.sw)
       \* dest is not an orphaned httpproxy, as there is an httpproxy that points to it
    /\ orphaned' = NotOrphaned(orphaned, Top.proxy)
    /\ UNCHANGED <<source, config, phase, todo, computed, vhosts, svhosts>>

\* lines 268-418: the routes of the proxy itself, after its includes
ComputeRoutesRoutes ==
    /\ stack # <<>>
    /\ Top.fn = "computeRoutes"
    /\ Top.pc = "includes"
    /\ Top.i > Len(source.httpproxies[Top.proxy].Includes)
    /\ \E f \in {Top} :
          \E b \in {BuildRoutes(source, config, source.httpproxies[f.proxy], 1, f.conditions,
                                f.visited, f.enforceTLS, f.routes)} :
              IF b.err # NoError
              THEN stack' = SetTop(Failed(f, b.err))
              ELSE \E order \in GroupOrders(b.routes) :
                       \E routes \in {expandPrefixMatches(b.routes, order)} :
                           stack' = SetTop([f EXCEPT !.sw = SetValid(f.sw), !.routes = routes,
                                                     !.pc = "return"])
    /\ UNCHANGED <<source, config, phase, todo, computed, orphaned, statuses, vhosts, svhosts>>

\* lines 192-201 in computeHTTPProxy: computeRoutes has returned; then the
\* deferred commit of line 80
ComputeHTTPProxyRoutes ==
    /\ Len(stack) >= 2
    /\ Top.fn = "computeRoutes"
    /\ Top.pc = "return"
    /\ Caller.fn = "computeHTTPProxy"
    /\ LET host == Caller.host
           tlsEnabled == Caller.enforceTLS
           doc == source.httpproxies[Caller.proxy]
       IN  /\ vhosts' = addRoutes(lookupVirtualHost(vhosts, host), host, Top.routes)
           /\ svhosts' = IF tlsEnabled /\ ~doc.TCPProxy.present
                         THEN addRoutes(lookupSecureVirtualHost(svhosts, host), host, Top.routes)
                         ELSE svhosts
    /\ statuses' = Commit(statuses, Top.sw)
    /\ stack' = <<>>
    /\ UNCHANGED <<source, config, phase, todo, computed, orphaned>>

(***************************************************************************)
(* Run, lines 61-69 and the deferred reset of lines 54-57.                 *)
(***************************************************************************)
\* the writer of lines 64-66
OrphanWriter(k) ==
    [WithObject(k) EXCEPT
        !.values.status = StatusOrphaned,
        !.values.description = Description(
            "this HTTPProxy is not part of a delegation chain from a root HTTPProxy", <<>>)]

Orphans ==
    /\ phase = "computeHTTPProxies"
    /\ stack = <<>>
    /\ todo = <<>>
    /\ statuses' = CommitAll(statuses,
           [i \in 1..Cardinality(orphaned \cap Docs(source)) |->
               OrphanWriter(SortStrings(orphaned \cap Docs(source))[i])])
    /\ phase' = "defer"
    /\ UNCHANGED <<source, config, todo, computed, stack, orphaned, vhosts, svhosts>>

RunDefer ==
    /\ phase = "defer"
    /\ orphaned' = {}
    /\ phase' = "done"
    /\ UNCHANGED <<source, config, todo, computed, stack, statuses, vhosts, svhosts>>

(***************************************************************************)
(* The snapshots a Run starts from.  Five documents at most: the roots     *)
(* a/r1 and b/r2 and the leaves a/l1, a/l2, a/l3; a/none is in no          *)
(* snapshot.  Each family varies what a part of the code reads: the        *)
(* include graph, the roots and their namespaces, TLS with TCPProxy, the   *)
(* routes, the mirror services of a route, the order of the routes, and    *)
(* the fallback certificate with client validation.                        *)
(***************************************************************************)
\* the most include entries that an include-graph snapshot holds in all
MaxIncludes == 4

\* the most routes that r1 and l1 hold together in a routes snapshot
MaxRoutes == 2

PathA == <<"/", "a">>

PathB == <<"/", "b">>

Svc == Service("svc", 80, FALSE, "")

\* the route kinds of the snapshots
PlainRoute == Route(<<>>, FALSE, <<Svc>>, <<>>)

InsecureRoute == Route(<<MatchCondition(PathB)>>, TRUE, <<Svc>>, <<>>)

NoServiceRoute == Route(<<MatchCondition(PathA)>>, FALSE, <<>>, <<>>)

RewriteRoute ==
    Route(<<MatchCondition(PathA \o Slash)>>, TRUE, <<Svc>>, <<ReplacePrefix(<<>>, PathB \o Slash)>>)

BadPortRoute == Route(<<MatchCondition(PathA)>>, FALSE, <<Service("svc", 0, FALSE, "")>>, <<>>)

RouteKinds == {PlainRoute, InsecureRoute, NoServiceRoute, RewriteRoute, BadPortRoute}

\* a mirror service speaks h2c, which tells its cluster from the one of Svc
MirrorSvc == Service("svc", 80, TRUE, "h2c")

\* the routes with mirror services
MirrorRoute == Route(<<>>, FALSE, <<Svc, MirrorSvc>>, <<>>)

MirrorFirstRoute == Route(<<>>, FALSE, <<MirrorSvc, Svc, Svc>>, <<>>)

OnlyMirrorRoute == Route(<<>>, FALSE, <<MirrorSvc>>, <<>>)

TwoMirrorRoute == Route(<<>>, FALSE, <<MirrorSvc, Svc, MirrorSvc>>, <<>>)

MirrorUnresolvedRoute ==
    Route(<<>>, FALSE, <<MirrorSvc, Service("nosvc", 80, TRUE, "h2c")>>, <<>>)

MirrorKinds ==
    {MirrorRoute, MirrorFirstRoute, OnlyMirrorRoute, TwoMirrorRoute, MirrorUnresolvedRoute}

\* an include of a document of namespace a, under the condition that goes
\* with the target
IncludeOf(name) ==
    Include(IF name \in {"l2", "r1"} THEN "a" ELSE "", name,
            <<MatchCondition(IF name \in {"l1", "l3"} THEN PathA ELSE PathB)>>)

Includes(names) == [i \in 1..Len(names) |-> IncludeOf(names[i])]

Leaf(name, includes, routes, tcpproxy) ==
    HTTPProxy("a", name, NoVirtualHost, includes, routes, tcpproxy)

Root(namespace, name, fqdn, tls, includes, routes, tcpproxy) ==
    HTTPProxy(namespace, name, VirtualHost(fqdn, tls), includes, routes, tcpproxy)

\* Source.httpproxies for the documents of docs
HTTPProxies(docs) ==
    [k \in {KeyOf(docs[i]) : i \in 1..Len(docs)} |->
        docs[CHOOSE i \in 1..Len(docs) : KeyOf(docs[i]) = k]]

Source(docs, rootNamespaces) ==
    [httpproxies |-> HTTPProxies(docs),
     RootNamespaces |-> rootNamespaces,
     secrets |-> {"a/cert", "b/cert", "a/fallback", "b/fallback"},
     cas |-> {"a/ca"},
     delegations |-> {},
     services |-> {<<"a/svc", 80>>, <<"b/svc", 80>>}]

NoFallback == [present |-> FALSE, Namespace |-> "", Name |-> ""]

Fallback(namespace, name) == [present |-> TRUE, Namespace |-> namespace, Name |-> name]

Config(disablePermitInsecure, fallback) ==
    [DisablePermitInsecure |-> disablePermitInsecure, FallbackCertificate |-> fallback]

PassthroughTLS == TLS("", TRUE, FALSE, "")

SecretTLS == TLS("cert", FALSE, FALSE, "")

\* the include graph: a root and three leaves, MaxIncludes include entries
\* in all
IncludeGraphs ==
    {<<Source(<<Root("a", "r1", "ex.com", NoTLS, Includes(i0), <<PlainRoute>>, NoTCPProxy),
                Leaf("l1", Includes(i1), <<>>, NoTCPProxy),
                Leaf("l2", Includes(i2), <<>>, NoTCPProxy),
                Leaf("l3", Includes(i3), <<PlainRoute>>, NoTCPProxy)>>, <<>>),
       Config(FALSE, NoFallback)>> :
        <<i0, i1, i2, i3>> \in
            UNION {UNION {UNION {
                {<<a, b, c, d>> :
                    d \in SeqsUpTo({"l1", "l3"}, MaxIncludes - Len(a) - Len(b) - Len(c))} :
                c \in SeqsUpTo({"l3", "r1"}, MaxIncludes - Len(a) - Len(b))} :
                b \in SeqsUpTo({"l2", "l3", "none"}, MaxIncludes - Len(a))} :
                a \in SeqsUpTo({"l1", "l2"}, MaxIncludes)}}

\* the roots: two roots, their fqdns, the permitted namespaces
RootSets ==
    {<<Source(<<Root("a", "r1", "ex.com", NoTLS, Includes(inc1), <<PlainRoute>>, NoTCPProxy),
                Root("b", "r2", fqdn, NoTLS, Includes(inc2), routes2, NoTCPProxy),
                Leaf("l1", <<>>, <<PlainRoute>>, NoTCPProxy)>>, rootNamespaces),
       Config(FALSE, NoFallback)>> :
        fqdn \in {"ex.com", "b.com", " ", "*.com"},
        rootNamespaces \in {<<>>, <<"a">>, <<"b", "a">>},
        inc1 \in {<<>>, <<"l1">>},
        inc2 \in {<<>>, <<"l1">>},
        routes2 \in {<<>>, <<PlainRoute>>}}

\* the TLS stanzas of the snapshots, each with the processor's fallback
\* certificate
TLSKinds ==
    {<<tls, NoFallback>> :
        tls \in {NoTLS, PassthroughTLS, SecretTLS,
                 TLS("nocert", FALSE, FALSE, ""),
                 TLS("cert", TRUE, FALSE, ""),
                 TLS("", FALSE, FALSE, ""),
                 TLS("cert", FALSE, TRUE, "ca"),
                 TLS("cert", FALSE, TRUE, ""),
                 TLS("cert", FALSE, FALSE, "ca"),
                 TLS("cert", FALSE, FALSE, "noca"),
                 TLS("", TRUE, FALSE, "ca")}}
    \cup {<<TLS("cert", FALSE, TRUE, ""), fb>> :
            fb \in {Fallback("a", "fallback"), Fallback("b", "fallback"),
                    Fallback("a", "nofallback")}}

TCPSvc == Service("svc", 80, FALSE, "")

\* the TCPProxy stanzas of r1, l1 and l2 of the snapshots
TCPKinds ==
    {<<t, NoTCPProxy, NoTCPProxy>> :
        t \in {NoTCPProxy,
               TCPProxy(<<TCPSvc>>, NoTCPInclude, NoTCPInclude),
               TCPProxy(<<Service("nosvc", 80, FALSE, "")>>, NoTCPInclude, NoTCPInclude),
               TCPProxy(<<TCPSvc>>, TCPInclude("", "l1"), NoTCPInclude),
               TCPProxy(<<>>, NoTCPInclude, NoTCPInclude),
               TCPProxy(<<>>, TCPInclude("", "none"), NoTCPInclude),
               TCPProxy(<<>>, TCPInclude("a", "r1"), NoTCPInclude)}}
    \cup {<<t, u, NoTCPProxy>> :
            t \in {TCPProxy(<<>>, TCPInclude("", "l1"), NoTCPInclude),
                   TCPProxy(<<>>, NoTCPInclude, TCPInclude("a", "l1"))},
            u \in {NoTCPProxy,
                   TCPProxy(<<TCPSvc>>, NoTCPInclude, NoTCPInclude),
                   TCPProxy(<<TCPSvc>>, TCPInclude("", "l2"), NoTCPInclude),
                   TCPProxy(<<>>, TCPInclude("", "l1"), NoTCPInclude)}}
    \cup {<<TCPProxy(<<>>, TCPInclude("", "l1"), NoTCPInclude),
            TCPProxy(<<>>, TCPInclude("", "l2"), NoTCPInclude), v>> :
            v \in {NoTCPProxy,
                   TCPProxy(<<TCPSvc>>, NoTCPInclude, NoTCPInclude),
                   TCPProxy(<<>>, TCPInclude("", "l1"), NoTCPInclude),
                   TCPProxy(<<>>, NoTCPInclude, NoTCPInclude)}}

\* TLS with TCPProxy: a root whose TCPProxy may delegate to l1, and l1's to l2
TLSAndTCP ==
    {<<Source(<<Root("a", "r1", "ex.com", tk[1], <<>>, <<InsecureRoute>>, tcp[1]),
                Leaf("l1", <<>>, <<PlainRoute>>, tcp[2]),
                Leaf("l2", <<>>, <<>>, tcp[3])>>, <<>>),
       Config(dpi, tk[2])>> :
        tk \in TLSKinds, tcp \in TCPKinds, dpi \in BOOLEAN}

\* the routes: r1 includes l1, which includes l2; r1 and l1 hold MaxRoutes
\* routes in all, of every kind
RouteSets ==
    {<<Source(<<Root("a", "r1", "ex.com", tls, Includes(<<"l1">>), rs[1], NoTCPProxy),
                Leaf("l1", Includes(<<"l2">>), rs[2], NoTCPProxy),
                Leaf("l2", <<>>, <<InsecureRoute>>, NoTCPProxy)>>, <<>>),
       Config(dpi, NoFallback)>> :
        tls \in {NoTLS, SecretTLS},
        dpi \in BOOLEAN,
        rs \in UNION {{<<a, b>> : b \in SeqsUpTo(RouteKinds, MaxRoutes - Len(a))} :
                         a \in SeqsUpTo(RouteKinds, MaxRoutes)}}

\* the mirrors: r1 includes l1, whose route has mirror services; no document
\* includes l3, whose route names two mirrors
MirrorSets ==
    {<<Source(<<Root("a", "r1", "ex.com", NoTLS, Includes(<<"l1">>), rs, NoTCPProxy),
                Leaf("l1", <<>>, <<m>>, NoTCPProxy),
                Leaf("l3", <<>>, <<TwoMirrorRoute>>, NoTCPProxy)>>, <<>>),
       Config(FALSE, NoFallback)>> :
        m \in MirrorKinds,
        rs \in {<<PlainRoute>>, <<InsecureRoute, MirrorRoute>>, <<BadPortRoute, TwoMirrorRoute>>,
                <<TwoMirrorRoute, PlainRoute>>}}

RouteA == Route(<<MatchCondition(PathA)>>, FALSE, <<Svc>>, <<>>)

\* the order of the routes: r1 includes l1 under /a and l2 under /a/, in
\* either order, so that their routes and r1's RouteA share a group
OrderSets ==
    {<<Source(<<Root("a", "r1", "ex.com", NoTLS, includes, rs, NoTCPProxy),
                Leaf("l1", <<>>, <<PlainRoute>>, NoTCPProxy),
                Leaf("l2", <<>>, <<PlainRoute, InsecureRoute>>, NoTCPProxy)>>, <<>>),
       Config(FALSE, NoFallback)>> :
        includes \in Perms({Include("", "l1", <<MatchCondition(PathA)>>),
                            Include("", "l2", <<MatchCondition(PathA \o Slash)>>)}),
        rs \in {<<PlainRoute>>, <<RouteA, PlainRoute>>}}

\* fallback with client validation: a root that sets both, with every kind
\* of secret name and passthrough, alone or next to a root of the same fqdn
FallbackSets ==
    {<<Source(<<Root("a", "r1", "ex.com", TLS(name, passthrough, TRUE, "ca"), <<>>,
                     <<PlainRoute>>, NoTCPProxy),
                Root("b", "r2", fqdn, NoTLS, <<>>, <<PlainRoute>>, NoTCPProxy)>>, rootNamespaces),
       Config(FALSE, fb)>> :
        name \in {"cert", "nocert", "b/cert", ""},
        passthrough \in BOOLEAN,
        fqdn \in {"ex.com", "b.com"},
        rootNamespaces \in {<<>>, <<"b">>},
        fb \in {NoFallback, Fallback("a", "fallback")}}

Snapshots ==
    IncludeGraphs \cup RootSets \cup TLSAndTCP \cup RouteSets \cup MirrorSets \cup OrderSets
    \cup FallbackSets

Init ==
    /\ \E s \in Snapshots : source = s[1] /\ config = s[2]
    /\ phase = "start"
    /\ todo = <<>>
    /\ computed = {}
    /\ stack = <<>>
    /\ orphaned = {}
    /\ statuses = [k \in Docs(source) |-> <<>>]
    /\ vhosts = <<>>
    /\ svhosts = <<>>

Next ==
    \/ Run
    \/ ValidHTTPProxies
    \/ ComputeHTTPProxy
    \/ ProcessHTTPProxyTCPProxy
    \/ TCPProxyReturn
    \/ TCPProxyDone
    \/ ComputeRoutes
    \/ ComputeRoutesInclude
    \/ ComputeRoutesIncluded
    \/ ComputeRoutesRoutes
    \/ ComputeHTTPProxyRoutes
    \/ Orphans
    \/ RunDefer

Spec == Init /\ [][Next]_vars

(***************************************************************************)
(* expandPrefixMatches by itself: one call, with any list of up to         *)
(* MaxExpand routes.  The frame keeps the argument in input; routes is     *)
(* what the call returns.  The origin of a route is its place in the       *)
(* argument.                                                               *)
(***************************************************************************)
\* the most routes in the argument of a call
MaxExpand == 3

\* the path conditions and the rewrites of the routes of the argument
ExpandConditions ==
    {PrefixCondition(Slash), PrefixCondition(PathA), PrefixCondition(PathA \o Slash),
     PrefixCondition(PathB), ExactCondition(PathA)}

ExpandRewrites == {<<>>, Slash, PathB \o Slash}

GraphRoute(condition, rewrite, index) ==
    [PathMatchCondition |-> condition, HTTPSUpgrade |-> FALSE, PrefixRewrite |-> rewrite,
     Clusters |-> <<>>, MirrorPolicy |-> NoMirrorPolicy,
     origin |-> [proxy |-> "", index |-> index, visited |-> <<>>, conds |-> <<>>]]

ExpandInputs ==
    {[i \in 1..Len(shapes) |-> GraphRoute(shapes[i][1], shapes[i][2], i)] :
        shapes \in SeqsUpTo(ExpandConditions \X ExpandRewrites, MaxExpand)}

\* expandPrefixMatches(routes)
ExpandCall(routes) ==
    [fn |-> "expandPrefixMatches", pc |-> "enter", input |-> routes, routes |-> <<>>]

ExpandInit ==
    /\ source = Source(<<>>, <<>>)
    /\ config = Config(FALSE, NoFallback)
    /\ phase = "expandPrefixMatches"
    /\ todo = <<>>
    /\ computed = {}
    /\ \E routes \in ExpandInputs : stack = <<ExpandCall(routes)>>
    /\ orphaned = {}
    /\ statuses = <<>>
    /\ vhosts = <<>>
    /\ svhosts = <<>>

\* lines 641-654: the loop that groups the routes
ExpandPrefixMatchesGroup ==
    /\ stack # <<>>
    /\ Top.fn = "expandPrefixMatches"
    /\ Top.pc = "enter"
    /\ stack' = SetTop([Top EXCEPT !.pc = IF TypeAssertionPanics(Top.input)
                                          THEN "panic" ELSE "range"])
    /\ UNCHANGED <<source, config, phase, todo, computed, orphaned, statuses, vhosts, svhosts>>

\* lines 656-708: the loop over the groups, and the return
ExpandPrefixMatchesRange ==
    /\ stack # <<>>
    /\ Top.fn = "expandPrefixMatches"
    /\ Top.pc = "range"
    /\ \E order \in GroupOrders(Top.input) :
          \E routes \in {expandPrefixMatches(Top.input, order)} :
              stack' = SetTop([Top EXCEPT !.routes = routes, !.pc = "return"])
    /\ UNCHANGED <<source, config, phase, todo, computed, orphaned, statuses, vhosts, svhosts>>

ExpandNext == ExpandPrefixMatchesGroup \/ ExpandPrefixMatchesRange

ExpandSpec == ExpandInit /\ [][ExpandNext]_vars

\* Run is one call: once begun it runs to its end
FairSpec == Spec /\ WF_vars(Next)

(***************************************************************************)
(* What the claims speak of.                                               *)
(***************************************************************************)
Done == phase = "done"

\* some commit for document k carries this status
Committed(k, status) ==
    \E i \in 1..Len(statuses[k]) : statuses[k][i].status = status

\* some commit for document k carries this status with this message
CommittedWith(k, status, msg) ==
    \E i \in 1..Len(statuses[k]) :
        /\ statuses[k][i].status = status
        /\ statuses[k][i].description.msg = msg

CycleMsg == "include creates a delegation cycle: %s"

RootToRootMsg == "root httpproxy cannot delegate to another root httpproxy"

ConflictMsg == "fqdn %q is used in multiple HTTPProxies: %s"

\* the roots that share the fqdn of root k
SameFqdn(k) ==
    {j \in Docs(source) :
        /\ source.httpproxies[j].VirtualHost.present
        /\ source.httpproxies[j].VirtualHost.Fqdn = source.httpproxies[k].VirtualHost.Fqdn}

\* every route the builder holds
GraphRoutes ==
    UNION {Range(vhosts[h].routes) : h \in DOMAIN vhosts}
    \cup UNION {Range(svhosts[h].routes) : h \in DOMAIN svhosts}

(***************************************************************************)
(* C1.  After Run every document of the snapshot has a recorded status     *)
(* that is valid, invalid or orphaned.  The code leaves a root with no     *)
(* status when processHTTPProxyTCPProxy fails below the root: the error is *)
(* set on the writer of the included document, and computeHTTPProxy        *)
(* returns at line 188 with nothing set on its own writer.                 *)
(***************************************************************************)
C1_EveryDocumentHasStatus ==
    Done => \A k \in Docs(source) :
                \/ Committed(k, StatusValid)
                \/ Committed(k, StatusInvalid)
                \/ Committed(k, StatusOrphaned)

(***************************************************************************)
(* C2.  Roots that share an fqdn are all set invalid with the fqdn         *)
(* conflict message, are never passed to computeHTTPProxy, and no virtual  *)
(* host is added to the builder for their fqdn.                            *)
(***************************************************************************)
C2_FqdnConflict ==
    \A k \in Docs(source) :
        (source.httpproxies[k].VirtualHost.present /\ Cardinality(SameFqdn(k)) >= 2) =>
            /\ k \notin computed
            /\ k \notin Range(todo)
            /\ \A i \in 1..Len(stack) : stack[i].proxy # k
            /\ source.httpproxies[k].VirtualHost.Fqdn \notin DOMAIN vhosts \cup DOMAIN svhosts
            /\ phase \notin {"start", "validHTTPProxies"} =>
                  /\ Len(statuses[k]) = 1
                  /\ statuses[k][1].status = StatusInvalid
                  /\ statuses[k][1].description.msg = ConflictMsg
                  /\ statuses[k][1].description.args[1] = source.httpproxies[k].VirtualHost.Fqdn
                  /\ Range(Tail(statuses[k][1].description.args)) = SameFqdn(k)

C2_Witness ==
    /\ Done
    /\ \E k \in Docs(source) :
          /\ source.httpproxies[k].VirtualHost.present
          /\ Cardinality(SameFqdn(k)) >= 2
          /\ CommittedWith(k, StatusInvalid, ConflictMsg)
          /\ source.httpproxies[k].Routes # <<>>

(***************************************************************************)
(* C3.  The documents reported orphaned are exactly the leaves that are    *)
(* not transitively referenced by the includes of a valid root.            *)
(* As stated this fails: a walk stops at the first include of a list that  *)
(* fails, at a re-entered document and at duplicate include conditions,    *)
(* and a root rejected by computeHTTPProxy starts no walk; leaves          *)
(* referenced only beyond such a point stay orphaned.                      *)
(***************************************************************************)
\* the documents that the includes and the TCPProxy include of k name
Referenced(k) ==
    LET doc == source.httpproxies[k]
        tcp == TCPProxyInclude(doc.TCPProxy)
    IN  ({IncludeKey(doc.Includes[i], doc.Namespace) : i \in 1..Len(doc.Includes)}
         \cup (IF doc.TCPProxy.present /\ tcp.present
               THEN {IncludeKey(tcp, doc.Namespace)} ELSE {}))
        \cap Docs(source)

RECURSIVE ReferencedFrom(_)
ReferencedFrom(S) ==
    LET more == S \cup UNION {Referenced(k) : k \in S}
    IN  IF more = S THEN S ELSE ReferencedFrom(more)

\* the roots of the valid set: those whose fqdn no other root uses
UniqueRoots ==
    {k \in Docs(source) : source.httpproxies[k].VirtualHost.present /\ SameFqdn(k) = {k}}

ReportedOrphaned == {k \in Docs(source) : Committed(k, StatusOrphaned)}

AllLeaves == {k \in Docs(source) : ~source.httpproxies[k].VirtualHost.present}

\* the roots that end the run valid
ValidRootsAtEnd == {k \in UniqueRoots : Committed(k, StatusValid)}

\* the claim as stated, a valid root read either as a root of the valid set
\* or as a root that ends the run valid
C3_OrphanedAreUnreferenced ==
    Done => \/ ReportedOrphaned = AllLeaves \ ReferencedFrom(UniqueRoots)
            \/ ReportedOrphaned = AllLeaves \ ReferencedFrom(ValidRootsAtEnd)

\* The documents a walk reaches, computed from the snapshot alone.
\* computeRoutes(proxy k, ancestors visited), lines 215-266: the delegates
\* it resolves, and those their walks resolve
RECURSIVE RoutesWalk(_, _), IncludesWalk(_, _, _)
RoutesWalk(k, visited) ==
    IF k \in Range(visited) \/ includeMatchConditionsIdentical(source.httpproxies[k].Includes)
    THEN {}
    ELSE IncludesWalk(k, 1, Append(visited, k))

IncludesWalk(k, i, visited) ==
    LET doc == source.httpproxies[k]
        delegate == IncludeKey(doc.Includes[i], doc.Namespace)
    IN  IF i > Len(doc.Includes) THEN {}
        ELSE IF \/ delegate \notin Docs(source)
                \/ source.httpproxies[delegate].VirtualHost.present
                \/ ~pathMatchConditionsValid(doc.Includes[i].Conditions)
        THEN {}
        ELSE {delegate} \cup RoutesWalk(delegate, visited) \cup IncludesWalk(k, i + 1, visited)

\* processHTTPProxyTCPProxy(httpproxy k, ancestors visited), lines 425-514:
\* the documents it resolves, and whether it returns true
RECURSIVE TCPWalk(_, _)
TCPWalk(k, visited) ==
    LET doc == source.httpproxies[k]
        tcpproxy == doc.TCPProxy
        include == TCPProxyInclude(tcpproxy)
        m == IncludeKey(include, doc.Namespace)
        below == TCPWalk(m, Append(visited, k))
    IN  IF ~tcpproxy.present THEN [reached |-> {}, ok |-> TRUE]
        ELSE IF Len(tcpproxy.Services) > 0
        THEN [reached |-> {},
              ok |-> ~include.present
                     /\ FirstUnresolved(source, doc.Namespace, tcpproxy.Services) = 0]
        ELSE IF ~include.present \/ m \notin Docs(source)
        THEN [reached |-> {}, ok |-> FALSE]
        ELSE IF source.httpproxies[m].VirtualHost.present
        THEN [reached |-> {}, ok |-> FALSE]
        ELSE IF m \in Range(visited) \cup {k}
        THEN [reached |-> {m}, ok |-> FALSE]
        ELSE [reached |-> {m} \cup below.reached, ok |-> below.ok]

\* computeHTTPProxy for root k, lines 88-192
RootWalk(k) ==
    LET doc == source.httpproxies[k]
        tcp == TCPWalk(k, <<>>)
    IN  IF RootCheck(source, config, doc).err # NoError THEN {}
        ELSE IF tcp.ok THEN tcp.reached \cup RoutesWalk(k, <<>>)
        ELSE tcp.reached

WalkReached == UNION {RootWalk(k) : k \in UniqueRoots}

\* C3 as amended: the documents reported orphaned are exactly the leaves
\* that no walk reached; before the reset of Run they are the orphan set
C3_OrphanedAreUnreached ==
    /\ Done => ReportedOrphaned = AllLeaves \ WalkReached
    /\ phase = "defer" => orphaned = AllLeaves \ WalkReached

C3_Witness ==
    /\ Done
    /\ \E k, j \in AllLeaves :
          /\ k \in ReferencedFrom(UniqueRoots)
          /\ k \in ReportedOrphaned
          /\ j \in WalkReached
          /\ j \notin ReportedOrphaned

(***************************************************************************)
(* C4.  Run terminates for every snapshot, cyclic include graphs and       *)
(* cyclic TCPProxy include graphs included: the ancestor path of every     *)
(* invocation never holds a document twice, so the nesting of calls stays  *)
(* below one invocation per document plus the re-entered one, and every    *)
(* run reaches the end of Run.  Checked under FairSpec.                    *)
(***************************************************************************)
AncestorPathsDuplicateFree ==
    \A i \in 1..Len(stack) : NoDuplicates(stack[i].visited)

C4_RunTerminates ==
    /\ [](AncestorPathsDuplicateFree /\ Len(stack) < MaxDepth)
    /\ <>Done

\* a finished run over a cycle of two or more leaves
C4_Witness ==
    /\ Done
    /\ \E k \in AllLeaves : \E i \in 1..Len(statuses[k]) :
          /\ statuses[k][i].status = StatusInvalid
          /\ statuses[k][i].description.msg = CycleMsg
          /\ Len(statuses[k][i].description.args) >= 4

(***************************************************************************)
(* C5.  No route is built while the ancestor path holds a document twice:  *)
(* an invocation of computeRoutes for a document of its ancestor path sets *)
(* its writer invalid with the delegation cycle message over the ancestor  *)
(* chain followed by the document, and returns no routes; any other        *)
(* invocation extends the path by its document; so the include chain of    *)
(* every route, in the builder or returned by an invocation, repeats no    *)
(* document.                                                               *)
(***************************************************************************)
\* the routes the invocations of the stack hold
FrameRoutes == UNION {Range(stack[i].routes) : i \in 1..Len(stack)}

C5_NoRouteAlongCycle ==
    /\ \A i \in 2..Len(stack) :
          LET f == stack[i]
              ancestors == stack[i - 1].visited
          IN  (f.fn = "computeRoutes" /\ f.pc # "enter") =>
                  IF f.proxy \in Range(ancestors)
                  THEN /\ f.pc = "return"
                       /\ f.routes = <<>>
                       /\ f.sw.obj = f.proxy
                       /\ f.sw.values.status = StatusInvalid
                       /\ f.sw.values.description =
                              Description(CycleMsg, Append(ancestors, f.proxy))
                  ELSE f.visited = Append(ancestors, f.proxy)
    /\ \A r \in GraphRoutes \cup FrameRoutes :
          /\ NoDuplicates(r.origin.visited)
          /\ Last(r.origin.visited) = r.origin.proxy

\* a cycle was entered and reported, and the graph holds routes of the
\* documents of the cycle
C5_Witness ==
    /\ Done
    /\ \E k \in AllLeaves :
          /\ CommittedWith(k, StatusInvalid, CycleMsg)
          /\ \E r \in GraphRoutes : k \in Range(r.origin.visited)

(***************************************************************************)
(* C6.  When root R includes L and L includes R, R is set invalid with     *)
(* "include creates a delegation cycle: a/R -> a/L -> a/R" and no routes   *)
(* are emitted for R's virtual host.                                       *)
(* As stated this fails: line 250 refuses the include of a root before R   *)
(* would be re-entered, so it is L that is set invalid, with the           *)
(* root-to-root message, and R's own routes are emitted.                   *)
(***************************************************************************)
\* the documents that the includes of k name, in order
IncludeKeys(k) ==
    [i \in 1..Len(source.httpproxies[k].Includes) |->
        IncludeKey(source.httpproxies[k].Includes[i], source.httpproxies[k].Namespace)]

\* root R includes L and nothing else, L includes R and nothing else, and
\* computeHTTPProxy walks the includes of R
RootIncludesBack(R, L) ==
    /\ R \in UniqueRoots
    /\ L \in AllLeaves
    /\ IncludeKeys(R) = <<L>>
    /\ IncludeKeys(L) = <<R>>
    /\ ~source.httpproxies[R].TCPProxy.present
    /\ RootCheck(source, config, source.httpproxies[R]).err = NoError

\* the routes of the insecure virtual host of root R
RoutesOf(R) ==
    IF FqdnOf(source, R) \in DOMAIN vhosts THEN vhosts[FqdnOf(source, R)].routes ELSE <<>>

\* some commit for document k is invalid with this description
CommittedInvalid(k, d) ==
    \E i \in 1..Len(statuses[k]) :
        statuses[k][i].status = StatusInvalid /\ statuses[k][i].description = d

\* the claim as stated
C6_CycleThroughRoot ==
    Done => \A R, L \in Docs(source) :
                RootIncludesBack(R, L) =>
                    /\ CommittedInvalid(R, Description(CycleMsg, <<R, L, R>>))
                    /\ RoutesOf(R) = <<>>

\* C6 as amended: L is set invalid with the root-to-root message, R ends
\* valid with its own routes emitted and none of L's, nothing is reported
\* as a delegation cycle, and L is not orphaned; and in every run, the
\* document that a delegation cycle message reports as re-entered is a leaf
C6_RootIsNeverReentered ==
    /\ \A k \in Docs(source) : \A i \in 1..Len(statuses[k]) :
          statuses[k][i].description.msg = CycleMsg =>
              /\ k \in AllLeaves
              /\ Last(statuses[k][i].description.args) = k
    /\ Done => \A R, L \in Docs(source) :
                RootIncludesBack(R, L) =>
                    /\ CommittedInvalid(L, Description(RootToRootMsg, <<>>))
                    /\ \A k \in Docs(source) : ~CommittedWith(k, StatusInvalid, CycleMsg)
                    /\ L \notin ReportedOrphaned
                    /\ Len(statuses[R]) = 1
                    /\ ~Committed(R, StatusInvalid)
                    /\ \A i \in 1..Len(RoutesOf(R)) : RoutesOf(R)[i].origin.proxy = R
                    /\ BuildRoutes(source, config, source.httpproxies[R], 1, <<>>, <<R>>,
                                   source.httpproxies[R].VirtualHost.TLS.present, <<>>).err = NoError
                       => /\ Committed(R, StatusValid)
                          /\ Len(RoutesOf(R)) >= Len(source.httpproxies[R].Routes)

C6_Witness ==
    /\ Done
    /\ \E R, L \in Docs(source) :
          /\ RootIncludesBack(R, L)
          /\ CommittedInvalid(L, Description(RootToRootMsg, <<>>))
          /\ Committed(R, StatusValid)
          /\ RoutesOf(R) # <<>>

(***************************************************************************)
(* C7.  A diamond is not a cycle: when a root includes two distinct        *)
(* documents A and B under different conditions and both include the same  *)
(* leaf C, no document is set invalid with a delegation cycle message, C   *)
(* is not orphaned, and each route of C is emitted once per path, under    *)
(* the conditions composed along that path.                                *)
(***************************************************************************)
Diamond(R, A, B, C) ==
    /\ R \in UniqueRoots
    /\ {A, B, C} \subseteq AllLeaves
    /\ A # B /\ A # C /\ B # C
    /\ IncludeKeys(R) = <<A, B>>
    /\ source.httpproxies[R].Includes[1].Conditions # source.httpproxies[R].Includes[2].Conditions
    /\ IncludeKeys(A) = <<C>>
    /\ IncludeKeys(B) = <<C>>
    /\ IncludeKeys(C) = <<>>
    /\ ~source.httpproxies[R].TCPProxy.present
    /\ RootCheck(source, config, source.httpproxies[R]).err = NoError

\* the positions, among the routes of root R, of route j of C along root, via, C
EmittedAlong(R, via, C, j) ==
    {i \in 1..Len(RoutesOf(R)) :
        /\ RoutesOf(R)[i].origin.proxy = C
        /\ RoutesOf(R)[i].origin.index = j
        /\ RoutesOf(R)[i].origin.visited = <<R, via, C>>}

\* the conditions composed along root, via, C for route j of C
ComposedAlong(R, via, C, j) ==
    LET n == CHOOSE i \in 1..Len(IncludeKeys(R)) : IncludeKeys(R)[i] = via
    IN  source.httpproxies[R].Includes[n].Conditions
        \o source.httpproxies[via].Includes[1].Conditions
        \o source.httpproxies[C].Routes[j].Conditions

C7_DiamondIsNoCycle ==
    Done => \A R, A, B, C \in Docs(source) :
                Diamond(R, A, B, C) =>
                    /\ \A k \in Docs(source) : ~CommittedWith(k, StatusInvalid, CycleMsg)
                    /\ C \notin ReportedOrphaned
                    /\ Committed(C, StatusValid)
                    /\ \A j \in 1..Len(source.httpproxies[C].Routes) : \A via \in {A, B} :
                          /\ Cardinality(EmittedAlong(R, via, C, j)) = 1
                          /\ \A i \in EmittedAlong(R, via, C, j) :
                                RoutesOf(R)[i].PathMatchCondition =
                                    mergePathMatchConditions(ComposedAlong(R, via, C, j))
                    /\ Cardinality({i \in 1..Len(RoutesOf(R)) : RoutesOf(R)[i].origin.proxy = C})
                           = 2 * Len(source.httpproxies[C].Routes)

C7_Witness ==
    /\ Done
    /\ \E R, A, B, C \in Docs(source) :
          /\ Diamond(R, A, B, C)
          /\ source.httpproxies[C].Routes # <<>>
          /\ \E i, j \in 1..Len(RoutesOf(R)) :
                /\ RoutesOf(R)[i].origin.visited = <<R, A, C>>
                /\ RoutesOf(R)[j].origin.visited = <<R, B, C>>
                /\ RoutesOf(R)[i].PathMatchCondition # RoutesOf(R)[j].PathMatchCondition

(***************************************************************************)
(* C8.  During one Run the status of every document is committed exactly   *)
(* once.                                                                   *)
(* As stated this fails for every leaf: computeHTTPProxy commits a writer  *)
(* with nothing set for each leaf (lines 79-86), and the leaf is committed *)
(* again by each walk that arrives at it or by the orphan loop.            *)
(***************************************************************************)
\* the claim as stated
C8_CommittedExactlyOnce ==
    Done => \A k \in Docs(source) : Len(statuses[k]) = 1

\* C8 as amended: every root is committed exactly once; every leaf is
\* committed at least twice, first with no status set by computeHTTPProxy,
\* and at most once as orphaned, which is then its last commit
C8_RootsOnceLeavesMore ==
    Done => /\ \A k \in Docs(source) \ AllLeaves : Len(statuses[k]) = 1
            /\ \A k \in AllLeaves :
                  /\ Len(statuses[k]) >= 2
                  /\ statuses[k][1] = EmptyValues
                  /\ \A i \in 1..Len(statuses[k]) :
                        statuses[k][i].status = StatusOrphaned => i = Len(statuses[k])
                  /\ k \in ReportedOrphaned => Len(statuses[k]) = 2

\* a leaf reached along two paths is committed three times, its root once
C8_Witness ==
    /\ Done
    /\ \E k \in AllLeaves : Len(statuses[k]) = 3 /\ Committed(k, StatusValid)
    /\ \E k \in Docs(source) \ AllLeaves : Len(statuses[k]) = 1 /\ Committed(k, StatusValid)

(***************************************************************************)
(* C9.  Every route of the graph with HTTPSUpgrade set belongs to an       *)
(* insecure virtual host whose fqdn also has a secure virtual host.        *)
(* The code breaks this for a passthrough root whose TCPProxy delegates to *)
(* a document without a tcpproxy stanza: processHTTPProxyTCPProxy returns  *)
(* true at line 429 without having looked up the secure virtual host, and  *)
(* line 198 skips it because the root has a TCPProxy.                      *)
(***************************************************************************)
C9_UpgradeHasSecureSibling ==
    Done => \A r \in GraphRoutes :
                r.HTTPSUpgrade =>
                    \E h \in DOMAIN vhosts :
                        /\ r \in Range(vhosts[h].routes)
                        /\ h \in DOMAIN svhosts

(***************************************************************************)
(* C10.  For every route emitted under a root, HTTPSUpgrade equals         *)
(* enforceTLS and not (PermitInsecure and not DisablePermitInsecure),      *)
(* where enforceTLS is whether the root has a TLS stanza, whatever the     *)
(* number of include levels between the root and the route; so with        *)
(* DisablePermitInsecure every route under a TLS root has HTTPSUpgrade,    *)
(* and no route under a root without TLS has it.                           *)
(***************************************************************************)
\* the HTTPProxy route that graph route r was built from
SourceRoute(r) == source.httpproxies[r.origin.proxy].Routes[r.origin.index]

\* whether the root of the include chain of r has a TLS stanza
RootTLS(r) == source.httpproxies[r.origin.visited[1]].VirtualHost.TLS.present

C10_HTTPSUpgrade ==
    \A r \in GraphRoutes \cup FrameRoutes :
        /\ IsRoot(source, r.origin.visited[1])
        /\ r.HTTPSUpgrade =
              (RootTLS(r) /\ ~(SourceRoute(r).PermitInsecure /\ ~config.DisablePermitInsecure))
        /\ (config.DisablePermitInsecure /\ RootTLS(r)) => r.HTTPSUpgrade
        /\ ~RootTLS(r) => ~r.HTTPSUpgrade

\* under one TLS root, two levels down, a route that permits insecure
\* traffic is upgraded because the processor disables the permission
C10_Witness ==
    /\ Done
    /\ config.DisablePermitInsecure
    /\ \E r \in GraphRoutes :
          /\ Len(r.origin.visited) = 3
          /\ RootTLS(r)
          /\ SourceRoute(r).PermitInsecure
          /\ r.HTTPSUpgrade

(***************************************************************************)
(* C11.  For every route of the graph whose source route has a service     *)
(* marked Mirror, the route has exactly one mirror cluster in MirrorPolicy *)
(* and its Clusters hold only the services that are not mirrors; a source  *)
(* route with two or more Mirror services produces no route and its        *)
(* document is set invalid with the mirror message.                        *)
(* As stated the last part fails: the document is set invalid with another *)
(* message when an earlier check fails first (an earlier route, or a       *)
(* service of the route up to its second mirror), and it is not set        *)
(* invalid at all when no walk reaches it.                                 *)
(***************************************************************************)
MirrorMsg == "only one service per route may be nominated as mirror"

\* the positions of the Mirror services of a source route
Mirrors(route) == {i \in 1..Len(route.Services) : route.Services[i].Mirror}

\* the clusters of the services of route j of document k that are not mirrors
NonMirrorClusters(k, j) ==
    LET doc == source.httpproxies[k]
        services == SelectSeq(doc.Routes[j].Services, LAMBDA sv : ~sv.Mirror)
    IN  [i \in 1..Len(services) |->
            Cluster(Key(doc.Namespace, services[i].Name), services[i].Protocol)]

\* the graph routes built from route j of document k
RoutesFrom(k, j) == {r \in GraphRoutes : r.origin.proxy = k /\ r.origin.index = j}

\* the first part of the claim, for one route of the graph
OneMirror(r) ==
    LET route == SourceRoute(r)
        namespace == source.httpproxies[r.origin.proxy].Namespace
    IN  Mirrors(route) # {} =>
            /\ Cardinality(Mirrors(route)) = 1
            /\ r.MirrorPolicy.present
            /\ \A i \in Mirrors(route) :
                  r.MirrorPolicy = Cluster(Key(namespace, route.Services[i].Name),
                                           route.Services[i].Protocol)
            /\ r.Clusters = NonMirrorClusters(r.origin.proxy, r.origin.index)

\* the claim as stated
C11_MirrorPolicy ==
    /\ \A r \in GraphRoutes : OneMirror(r)
    /\ Done => \A k \in Docs(source) : \A j \in 1..Len(source.httpproxies[k].Routes) :
                  Cardinality(Mirrors(source.httpproxies[k].Routes[j])) >= 2 =>
                      /\ RoutesFrom(k, j) = {}
                      /\ CommittedWith(k, StatusInvalid, MirrorMsg)

\* the position of the second Mirror service of a route that has two
SecondMirror(route) ==
    CHOOSE i \in Mirrors(route) : Cardinality({h \in Mirrors(route) : h < i}) = 1

\* the checks of lines 269-297, 310-319 and, for the services up to
\* position n, of lines 348-364 pass for the route
ChecksPassUpTo(namespace, route, n) ==
    /\ pathMatchConditionsValid(route.Conditions)
    /\ prefixReplacementsAreValid(route.PrefixReplacements)
    /\ \A i \in 1..n :
          /\ route.Services[i].Port \in 1..65535
          /\ LookupServiceOK(source, namespace, route.Services[i].Name, route.Services[i].Port)
          /\ getProtocolOK(route.Services[i])

\* the invocation of frame i of the stack has returned after it got to the
\* routes of its document
GotToRoutes(i) ==
    /\ stack[i].fn = "computeRoutes"
    /\ stack[i].pc = "return"
    /\ stack[i].proxy \notin Range(stack[i - 1].visited)
    /\ stack[i].i > Len(source.httpproxies[stack[i].proxy].Includes)

\* C11 as amended: a route with two or more Mirror services never produces
\* a route, and the invocation that gets to its second Mirror service, no
\* earlier check having failed, sets its writer invalid with the mirror
\* message and returns no routes
C11_MirrorPolicyWhenReached ==
    /\ \A r \in GraphRoutes : OneMirror(r)
    /\ \A k \in Docs(source) : \A j \in 1..Len(source.httpproxies[k].Routes) :
          Cardinality(Mirrors(source.httpproxies[k].Routes[j])) >= 2 => RoutesFrom(k, j) = {}
    /\ \A i \in 2..Len(stack) :
          GotToRoutes(i) =>
              LET f == stack[i]
                  doc == source.httpproxies[f.proxy]
              IN  \A j \in 1..Len(doc.Routes) :
                      (/\ Cardinality(Mirrors(doc.Routes[j])) >= 2
                       /\ ChecksPassUpTo(doc.Namespace, doc.Routes[j], SecondMirror(doc.Routes[j]))
                       /\ \A h \in 1..(j - 1) :
                             BuildRoute(source, config, doc, h, f.conditions, f.visited,
                                        f.enforceTLS).err = NoError)
                      => /\ f.sw.obj = f.proxy
                         /\ f.sw.values.status = StatusInvalid
                         /\ f.sw.values.description = Description(MirrorMsg, <<>>)
                         /\ f.routes = <<>>

\* a run that set a leaf invalid for its two mirrors, and whose graph holds
\* a route with a mirror and a cluster
C11_Witness ==
    /\ Done
    /\ \E k \in AllLeaves : CommittedWith(k, StatusInvalid, MirrorMsg)
    /\ \E r \in GraphRoutes :
          /\ r.MirrorPolicy.present
          /\ r.Clusters # <<>>
          /\ r.MirrorPolicy \notin Range(r.Clusters)

(***************************************************************************)
(* C12.  The law of expandPrefixMatches: when the group of the routes of   *)
(* slash-trimmed prefix p holds one route, that route has a rewrite and p  *)
(* is not "/", the output holds a route of prefix p whose rewrite is the   *)
(* slash-trimmed replacement ("/" when that is empty) and a route of       *)
(* prefix p + "/" whose rewrite is the trimmed replacement plus "/"; a     *)
(* group of two routes, and a group of one route that has no rewrite or    *)
(* has prefix "/", is output unchanged.  Checked under ExpandSpec, on the  *)
(* calls that return.                                                      *)
(***************************************************************************)
\* t is s without its trailing slashes
IsSlashTrimOf(t, s) ==
    /\ Len(t) <= Len(s)
    /\ t = SubSeq(s, 1, Len(t))
    /\ t # <<>> => Last(t) # "/"
    /\ \A i \in (Len(t) + 1)..Len(s) : s[i] = "/"

\* the slash-trimmed prefix of a route; "/" is its own
TrimmedPrefixOf(r, p) ==
    IF r.PathMatchCondition.Prefix = Slash THEN p = Slash
    ELSE IsSlashTrimOf(p, r.PathMatchCondition.Prefix)

\* a call of expandPrefixMatches has returned
ExpandReturned ==
    /\ stack # <<>>
    /\ Top.fn = "expandPrefixMatches"
    /\ Top.pc = "return"

\* the routes of seq whose slash-trimmed prefix is p, in order
GroupOf(seq, p) == SelectSeq(seq, LAMBDA r : TrimmedPrefixOf(r, p))

\* the slash-trimmed prefixes of the routes of the argument
ExpandPrefixes ==
    {p \in {<<>>, Slash, PathA, PathB} :
        \E i \in 1..Len(Top.input) : TrimmedPrefixOf(Top.input[i], p)}

C12_PrefixExpansionLaw ==
    ExpandReturned =>
        \A p \in ExpandPrefixes :
            LET group == GroupOf(Top.input, p)
                out == GroupOf(Top.routes, p)
            IN  IF Len(group) = 1 /\ group[1].PrefixRewrite # <<>> /\ p # Slash
                THEN /\ Len(out) = 2
                     /\ \E a, b \in 1..2 :
                           /\ out[a].PathMatchCondition = PrefixCondition(p)
                           /\ IsSlashTrimOf(out[a].PrefixRewrite, group[1].PrefixRewrite)
                              \/ /\ out[a].PrefixRewrite = Slash
                                 /\ IsSlashTrimOf(<<>>, group[1].PrefixRewrite)
                           /\ out[a].PrefixRewrite # <<>>
                           /\ out[b].PathMatchCondition = PrefixCondition(p \o Slash)
                           /\ Last(out[b].PrefixRewrite) = "/"
                           /\ IsSlashTrimOf(Front(out[b].PrefixRewrite), group[1].PrefixRewrite)
                ELSE (Len(group) = 2 \/ Len(group) = 1) => out = group

\* a call that returned a group of one route expanded, its rewrite "/"
\* normalised, next to a group of two routes
C12_Witness ==
    /\ ExpandReturned
    /\ \E p, q \in ExpandPrefixes :
          /\ Len(GroupOf(Top.input, p)) = 1
          /\ GroupOf(Top.input, p)[1].PrefixRewrite = Slash
          /\ p # Slash
          /\ Len(GroupOf(Top.routes, p)) = 2
          /\ Len(GroupOf(Top.input, q)) = 2
          /\ GroupOf(Top.input, q)[1].PrefixRewrite # <<>>

(***************************************************************************)
(* C13.  For every list given to expandPrefixMatches, each route without a *)
(* prefix path condition is passed through unchanged and is in the output  *)
(* exactly once, and the call completes without a panic.                   *)
(* The code breaks this: the branch of lines 643-645 appends the route but *)
(* does not skip to the next one, so the type assertion of line 647 is     *)
(* made on a condition that is not a *PrefixMatchCondition and panics.     *)
(* Checked under ExpandSpec.                                               *)
(***************************************************************************)
\* a call of expandPrefixMatches has ended, by a return or by a panic
ExpandEnded ==
    /\ stack # <<>>
    /\ Top.fn = "expandPrefixMatches"
    /\ Top.pc \in {"return", "panic"}

C13_NonPrefixPassedThrough ==
    ExpandEnded =>
        /\ Top.pc = "return"
        /\ \A i \in 1..Len(Top.input) :
              ~HasPathPrefix(Top.input[i]) =>
                  Cardinality({j \in 1..Len(Top.routes) : Top.routes[j] = Top.input[i]}) = 1

(***************************************************************************)
(* C14.  The order of the routes added to a virtual host is the traversal  *)
(* order: the own routes of a document come before the routes that its     *)
(* includes contribute, the routes of the includes are in the order the    *)
(* includes are authored, and the order is the same on every run over one  *)
(* snapshot.                                                               *)
(* As stated this fails: computeRoutes walks the includes first and        *)
(* appends the document's own routes after theirs (lines 239-268, 412),    *)
(* and expandPrefixMatches then regroups the list by prefix in the order   *)
(* in which a Go map is ranged over (line 656), which differs from run to  *)
(* run.  Within one group the order of the list is kept.                   *)
(***************************************************************************)
\* chain u is the beginning of the longer chain v
IsProperPrefix(u, v) == Len(u) < Len(v) /\ SubSeq(v, 1, Len(u)) = u

\* the length of what the chains u and v have in common at their beginning
CommonLen(u, v) ==
    CHOOSE n \in 0..Len(u) :
        /\ n <= Len(v)
        /\ SubSeq(u, 1, n) = SubSeq(v, 1, n)
        /\ (n < Len(u) /\ n < Len(v)) => u[n + 1] # v[n + 1]

\* routes x and y come from two different includes of one document, and
\* that of x is authored before that of y
AuthoredBefore(x, y) ==
    LET u == x.origin.visited
        v == y.origin.visited
        n == CommonLen(u, v)
    IN  (n >= 1 /\ n < Len(u) /\ n < Len(v)) =>
            \E i, j \in 1..Len(IncludeKeys(u[n])) :
                /\ i < j
                /\ IncludeKeys(u[n])[i] = u[n + 1]
                /\ IncludeKeys(u[n])[j] = v[n + 1]

\* the lists of routes of the claim: what an invocation of computeRoutes
\* returns, and what a virtual host holds
RouteLists ==
    {stack[i].routes : i \in {j \in 1..Len(stack) :
                                 stack[j].fn = "computeRoutes" /\ stack[j].pc = "return"}}
    \cup {vhosts[h].routes : h \in DOMAIN vhosts}
    \cup {svhosts[h].routes : h \in DOMAIN svhosts}

\* the claim as stated
C14_TraversalOrder ==
    \A routes \in RouteLists : \A a, b \in 1..Len(routes) :
        a < b => /\ ~IsProperPrefix(routes[b].origin.visited, routes[a].origin.visited)
                 /\ AuthoredBefore(routes[a], routes[b])

\* C14 as amended: among the routes of one slash-trimmed prefix, the routes
\* that the includes of a document contribute come before the document's own
\* routes, and the routes of the includes are in the order the includes are
\* authored
C14_OrderWithinGroup ==
    \A routes \in RouteLists : \A a, b \in 1..Len(routes) :
        (a < b /\ GroupKey(routes[a]) = GroupKey(routes[b])) =>
            /\ ~IsProperPrefix(routes[a].origin.visited, routes[b].origin.visited)
            /\ AuthoredBefore(routes[a], routes[b])

\* a finished run whose virtual host holds, in one group, the routes of two
\* includes and then the root's own, and before them a route of the include
\* authored last
C14_Witness ==
    /\ Done
    /\ \E h \in DOMAIN vhosts : \E a, b, c, d \in 1..Len(vhosts[h].routes) :
          LET routes == vhosts[h].routes
          IN  /\ a < b /\ b < c /\ c < d
              /\ GroupKey(routes[b]) = GroupKey(routes[c])
              /\ GroupKey(routes[c]) = GroupKey(routes[d])
              /\ GroupKey(routes[a]) # GroupKey(routes[b])
              /\ Len(routes[b].origin.visited) = 2
              /\ Len(routes[c].origin.visited) = 2
              /\ routes[b].origin.proxy # routes[c].origin.proxy
              /\ Len(routes[d].origin.visited) = 1
              /\ routes[a].origin.proxy = routes[c].origin.proxy

(***************************************************************************)
(* C15.  An invalid child does not taint its parent.  When the validation  *)
(* of an included document fails inside computeRoutes, only the writer of  *)
(* that document is set invalid and it contributes no routes; the          *)
(* including document goes on with its other includes and its own routes,  *)
(* and is set valid when its own validation passes.  A document is set     *)
(* invalid only for its own failures.                                      *)
(***************************************************************************)
\* the validation of computeRoutes that is the document's own: its include
\* list (lines 233-258) and its routes (lines 268-411), whatever the
\* documents it includes turn out to be
OwnValidationPasses(f) ==
    LET doc == source.httpproxies[f.proxy]
    IN  /\ ~includeMatchConditionsIdentical(doc.Includes)
        /\ \A n \in 1..Len(doc.Includes) :
              /\ IncludeKeys(f.proxy)[n] \in Docs(source)
              /\ ~IsRoot(source, IncludeKeys(f.proxy)[n])
              /\ pathMatchConditionsValid(doc.Includes[n].Conditions)
        /\ BuildRoutes(source, config, doc, 1, f.conditions, f.visited, f.enforceTLS,
                       <<>>).err = NoError

\* the invocation of frame i has returned, and was not the re-entry of a
\* document of its ancestor path
ReturnedFromOwn(i) ==
    /\ stack[i].fn = "computeRoutes"
    /\ stack[i].pc = "return"
    /\ stack[i].proxy \notin Range(stack[i - 1].visited)

C15_InvalidChildDoesNotTaintParent ==
    \A i \in 2..Len(stack) :
        LET f == stack[i]
            doc == source.httpproxies[f.proxy]
        IN  /\ (f.fn = "computeRoutes" /\ f.pc = "return" /\ ~f.ok) =>
                  \* only the scope of the failed document is set invalid
                  /\ f.sw.obj = f.proxy
                  /\ f.sw.values.status = StatusInvalid
                  /\ f.routes = <<>>
                  /\ stack[i - 1].fn = "computeRoutes" => stack[i - 1].sw.values.status = ""
            /\ ReturnedFromOwn(i) =>
                  IF OwnValidationPasses(f)
                  THEN /\ f.ok
                       /\ f.sw.values.status = StatusValid
                       /\ f.i = Len(doc.Includes) + 1
                       /\ \A j \in 1..Len(doc.Routes) : \E r \in Range(f.routes) :
                             /\ r.origin.proxy = f.proxy
                             /\ r.origin.index = j
                             /\ r.origin.visited = f.visited
                  ELSE /\ ~f.ok
                       /\ f.sw.values.status = StatusInvalid

\* a finished run in which the first include of a valid root was set
\* invalid, and the root's virtual host holds the routes of a later include
\* and its own
C15_Witness ==
    /\ Done
    /\ \E R \in UniqueRoots :
          /\ Len(IncludeKeys(R)) >= 2
          /\ IncludeKeys(R)[1] \in AllLeaves
          /\ Committed(IncludeKeys(R)[1], StatusInvalid)
          /\ ~Committed(IncludeKeys(R)[1], StatusValid)
          /\ Committed(R, StatusValid)
          /\ \E r \in Range(RoutesOf(R)) : r.origin.proxy = R
          /\ \E r \in Range(RoutesOf(R)) :
                Len(r.origin.visited) >= 2 /\ r.origin.visited[2] = IncludeKeys(R)[2]

(***************************************************************************)
(* C16.  A validation error is terminal for the offending document: a root *)
(* that is set invalid in computeHTTPProxy or in its own computeRoutes     *)
(* invocation has, at the end of the run, no node in the builder: no       *)
(* insecure virtual host for its fqdn, and no secure virtual host, secret, *)
(* fallback certificate or TCPProxy attached on its behalf.                *)
(* The code breaks this: the secret is attached at lines 136-137 before    *)
(* the checks of lines 141-173, the TCPProxy is attached at line 462       *)
(* before computeRoutes runs, and lines 193 and 199 look the virtual hosts *)
(* up, which allocates them, also when computeRoutes has set the root      *)
(* invalid and returned nil.                                               *)
(***************************************************************************)
\* the roots that the run has set invalid; no other root has their fqdn
InvalidRoots == {k \in UniqueRoots : Committed(k, StatusInvalid)}

C16_InvalidRootLeavesNoNode ==
    Done => \A k \in InvalidRoots :
                FqdnOf(source, k) \notin DOMAIN vhosts \cup DOMAIN svhosts

(***************************************************************************)
(* C17.  Every root whose TLS stanza sets both EnableFallbackCertificate   *)
(* and ClientValidation is set invalid with the message that fallback and  *)
(* client validation are incompatible, whatever its other TLS fields and   *)
(* whatever the secret lookup and the delegation check give.               *)
(* As stated this fails: the check of line 141 is made only after the      *)
(* checks of lines 89-134, and only for a TLS stanza without Passthrough,  *)
(* so a root that fails one of those is set invalid with that check's      *)
(* message instead.                                                        *)
(***************************************************************************)
FallbackValidationMsg ==
    "Spec.Virtualhost.TLS fallback & client validation are incompatible together"

\* the roots whose TLS stanza sets both
FallbackAndValidationRoots ==
    {k \in Roots(source) :
        /\ source.httpproxies[k].VirtualHost.TLS.present
        /\ source.httpproxies[k].VirtualHost.TLS.EnableFallbackCertificate
        /\ source.httpproxies[k].VirtualHost.TLS.ClientValidation.present}

\* the claim as stated
C17_FallbackWithValidation ==
    Done => \A k \in FallbackAndValidationRoots :
                CommittedInvalid(k, Description(FallbackValidationMsg, <<>>))

\* the checks that come before that of line 141 pass for root k: its fqdn is
\* its own, lines 89-108, and lines 112-134 with a secret to terminate TLS
EarlierChecksPass(k) ==
    LET doc == source.httpproxies[k]
        tls == doc.VirtualHost.TLS
    IN  /\ k \in UniqueRoots
        /\ Len(source.RootNamespaces) > 0 =>
              doc.Namespace \in Range(source.RootNamespaces)
        /\ doc.VirtualHost.Fqdn \notin {"", " ", "*.com"}
        /\ Len(doc.Routes) + Len(doc.Includes) > 0 \/ doc.TCPProxy.present
        /\ tls.SecretName \notin {"", " "}
        /\ ~tls.Passthrough
        /\ SecretKey(tls.SecretName, doc.Namespace) \in source.secrets
        /\ \/ SecretNamespace(tls.SecretName, doc.Namespace) = doc.Namespace
           \/ <<SecretKey(tls.SecretName, doc.Namespace), doc.Namespace>> \in source.delegations

\* C17 as amended: every such root is set invalid, once, and never valid;
\* the message is that of line 142 exactly when the earlier checks pass
C17_FallbackWithValidationIsInvalid ==
    Done => \A k \in FallbackAndValidationRoots :
                /\ Len(statuses[k]) = 1
                /\ statuses[k][1].status = StatusInvalid
                /\ EarlierChecksPass(k) <=>
                      statuses[k][1].description = Description(FallbackValidationMsg, <<>>)

\* a finished run with such a root whose secret the lookup found but the
\* delegation check refused
C17_Witness ==
    /\ Done
    /\ \E k \in FallbackAndValidationRoots :
          /\ k \in UniqueRoots
          /\ SecretKey(source.httpproxies[k].VirtualHost.TLS.SecretName,
                       source.httpproxies[k].Namespace) \in source.secrets
          /\ CommittedWith(k, StatusInvalid,
                 "Spec.VirtualHost.TLS Secret %q certificate delegation not permitted")

(***************************************************************************)
(* C18.  In the TCPProxy include walk an include whose target is in the    *)
(* ancestor path is handled as an HTTP include cycle is: the re-entered    *)
(* document is the one set invalid, the message is "include creates a      *)
(* delegation cycle:" with the ancestor chain followed by the re-entered   *)
(* document, the walk stops, and the target is not in the orphan set.      *)
(* As stated this fails: processHTTPProxyTCPProxy finds the cycle in the   *)
(* including document, before it makes a writer for the target (lines      *)
(* 498-507), so it is the including document that is set invalid, and the  *)
(* message is "tcpproxy include creates a cycle:".                         *)
(***************************************************************************)
TCPCycleMsg == "tcpproxy include creates a cycle: %s"

\* the document that the TCPProxy include of document k names
TCPTarget(k) ==
    IncludeKey(TCPProxyInclude(source.httpproxies[k].TCPProxy), source.httpproxies[k].Namespace)

\* the invocation of frame i has returned because the target of its include
\* is a leaf of its ancestor path, itself included
TCPCycleFound(i) ==
    LET f == stack[i]
        tcpproxy == source.httpproxies[f.proxy].TCPProxy
    IN  /\ f.fn = "processHTTPProxyTCPProxy"
        /\ f.pc = "return"
        /\ tcpproxy.present
        /\ tcpproxy.Services = <<>>
        /\ TCPProxyInclude(tcpproxy).present
        /\ TCPTarget(f.proxy) \in AllLeaves
        /\ TCPTarget(f.proxy) \in Range(f.visited) \cup {f.proxy}

\* the claim as stated
C18_TCPCycleLikeHTTPCycle ==
    \A i \in 2..Len(stack) :
        TCPCycleFound(i) =>
            LET f == stack[i]
                m == TCPTarget(f.proxy)
            IN  /\ f.sw.obj = m
                /\ f.sw.values.status = StatusInvalid
                /\ f.sw.values.description =
                       Description(CycleMsg, Append(Append(f.visited, f.proxy), m))
                /\ ~f.ok
                /\ m \notin orphaned

\* C18 as amended: the including document is the one set invalid, with the
\* tcpproxy cycle message over the ancestor chain, the including document
\* and the re-entered one; the walk stops and the target is not in the
\* orphan set; the invocations up the chain have set nothing on their
\* writers
C18_TCPCycleSetsIncluderInvalid ==
    /\ \A i \in 2..Len(stack) :
          TCPCycleFound(i) =>
              LET f == stack[i]
                  m == TCPTarget(f.proxy)
              IN  /\ f.sw.obj = f.proxy
                  /\ f.sw.values.status = StatusInvalid
                  /\ f.sw.values.description =
                         Description(TCPCycleMsg, Append(Append(f.visited, f.proxy), m))
                  /\ ~f.ok
                  /\ m \notin orphaned
                  /\ \A j \in 2..(i - 1) : stack[j].sw.values.status = ""
    /\ \A k \in Docs(source) : \A n \in 1..Len(statuses[k]) :
          statuses[k][n].description.msg = TCPCycleMsg =>
              LET args == statuses[k][n].description.args
              IN  /\ statuses[k][n].status = StatusInvalid
                  /\ Len(args) >= 2
                  /\ args[Len(args) - 1] = k
                  /\ Last(args) \in Range(Front(args))
                  /\ IsRoot(source, args[1])

\* a finished run in which a leaf was set invalid for including, by its
\* TCPProxy, a leaf further up the chain
C18_Witness ==
    /\ Done
    /\ \E k \in AllLeaves : \E n \in 1..Len(statuses[k]) :
          /\ statuses[k][n].description.msg = TCPCycleMsg
          /\ Last(statuses[k][n].description.args) # k
          /\ Last(statuses[k][n].description.args) \notin ReportedOrphaned

(***************************************************************************)
(* C19.  A document whose include list holds, at any two positions, two    *)
(* includes with the same prefix and deep-equal header conditions is set   *)
(* invalid by computeRoutes with "duplicate conditions defined on an       *)
(* include" and emits no routes; a document whose includes are pairwise    *)
(* not identical is never rejected by this check.                          *)
(* The code breaks the first part: includeMatchConditionsIdentical         *)
(* compares each include with the one before it only (j trails i by one,   *)
(* lines 751-761), so two identical includes with another one between them *)
(* are accepted.                                                           *)
(***************************************************************************)
DuplicateMsg == "duplicate conditions defined on an include"

\* includes x and y have a condition of the same prefix and header
IdenticalConditions(x, y) ==
    \E a \in 1..Len(x.Conditions), b \in 1..Len(y.Conditions) :
        /\ x.Conditions[a].Prefix = y.Conditions[b].Prefix
        /\ x.Conditions[a].Header = y.Conditions[b].Header

\* two includes of the list, at any two positions, are identical
HasIdenticalIncludes(includes) ==
    \E i, j \in 1..Len(includes) : i # j /\ IdenticalConditions(includes[i], includes[j])

C19_DuplicateIncludeConditions ==
    \A i \in 2..Len(stack) :
        ReturnedFromOwn(i) =>
            LET f == stack[i]
            IN  IF HasIdenticalIncludes(source.httpproxies[f.proxy].Includes)
                THEN /\ f.sw.values.status = StatusInvalid
                     /\ f.sw.values.description = Description(DuplicateMsg, <<>>)
                     /\ f.routes = <<>>
                ELSE f.sw.values.description.msg # DuplicateMsg

(***************************************************************************)
(* C20.  Within one Run every leaf is added to the orphan set before any   *)
(* root is processed, because validHTTPProxies lists the leaves ahead of   *)
(* the roots; so a leaf that a walk removed from the orphan set is not     *)
(* added to it again in that run, and the orphan set at the end of the run *)
(* is the same for every iteration order of the snapshot map and of the    *)
(* map of fqdns: it is the set of the leaves that no walk reaches, which   *)
(* the snapshot alone decides.                                             *)
(***************************************************************************)
\* once a root is processed, computeHTTPProxy has been called with every leaf
LeavesComeFirst ==
    (stack # <<>> \/ computed \cap Roots(source) # {}) => AllLeaves \subseteq computed

\* the orphan set that Run ranges over at its end
OrphansAreOrderFree ==
    phase = "defer" => orphaned = AllLeaves \ WalkReached

\* a leaf that was added to the orphan set, and is no longer in it, is not
\* in it after the step
NeverAddedAgain ==
    \A k \in AllLeaves : (k \in computed /\ k \notin orphaned) => k \notin orphaned'

C20_LeavesBeforeRoots ==
    /\ [](LeavesComeFirst /\ OrphansAreOrderFree)
    /\ [][NeverAddedAgain]_vars

\* the end of a run over several leaves, one of them removed from the
\* orphan set by a walk and another still in it
C20_Witness ==
    /\ phase = "defer"
    /\ Cardinality(AllLeaves) >= 2
    /\ orphaned # {}
    /\ \E k \in AllLeaves : k \in WalkReached /\ k \notin orphaned

(***************************************************************************)
(* C21.  The fqdn conflict is found before the check of the permitted root *)
(* namespaces, and without regard to it: a root of a namespace that is not *)
(* in RootNamespaces, sharing its fqdn with a root of a permitted          *)
(* namespace, makes both invalid with the fqdn conflict message.  Neither  *)
(* is passed to computeHTTPProxy, so the namespace check is never made for *)
(* them, and the permitted root adds no virtual host and no route.  What   *)
(* becomes of the permitted root thus depends on a document of a namespace *)
(* that is not permitted: without that document validHTTPProxies keeps the *)
(* root.                                                                   *)
(***************************************************************************)
NamespaceMsg == "root HTTPProxy cannot be defined in this namespace"

NamespaceOf(k) == source.httpproxies[k].Namespace

\* the pairs <<k, j>>: k a root of a permitted namespace, j a root of a
\* namespace that is not permitted, of the same fqdn
PermittedWithForbidden ==
    {p \in Roots(source) \X Roots(source) :
        /\ p[1] # p[2]
        /\ rootAllowed(source, NamespaceOf(p[1]))
        /\ ~rootAllowed(source, NamespaceOf(p[2]))
        /\ FqdnOf(source, p[1]) = FqdnOf(source, p[2])}

\* the snapshot without document j
SourceWithout(j) ==
    [source EXCEPT !.httpproxies = [k \in Docs(source) \ {j} |-> source.httpproxies[k]]]

\* the one commit of root k is the fqdn conflict, naming root j as well
OnlyTheConflict(k, j) ==
    /\ Len(statuses[k]) = 1
    /\ statuses[k][1].status = StatusInvalid
    /\ statuses[k][1].description.msg = ConflictMsg
    /\ statuses[k][1].description.args[1] = FqdnOf(source, k)
    /\ {k, j} \subseteq Range(Tail(statuses[k][1].description.args))
    /\ statuses[k][1].vhost = FqdnOf(source, k)

\* root k has not come to computeHTTPProxy, and will not
NeverComputed(k) ==
    /\ k \notin computed
    /\ k \notin Range(todo)
    /\ \A i \in 1..Len(stack) : stack[i].proxy # k

C21_ConflictBeforeNamespaceCheck ==
    \A p \in PermittedWithForbidden :
        /\ NeverComputed(p[1])
        /\ NeverComputed(p[2])
        /\ FqdnOf(source, p[1]) \notin DOMAIN vhosts \cup DOMAIN svhosts
        /\ \A r \in GraphRoutes : r.origin.proxy \notin {p[1], p[2]}
        /\ ~CommittedWith(p[2], StatusInvalid, NamespaceMsg)
        /\ phase \notin {"start", "validHTTPProxies"} =>
              /\ OnlyTheConflict(p[1], p[2])
              /\ OnlyTheConflict(p[2], p[1])
        /\ SameFqdn(p[1]) = {p[1], p[2]} => p[1] \in ValidRoots(SourceWithout(p[2]))

\* the end of a run in which a permitted root with routes lost its virtual
\* host to a root of a namespace that is not permitted
C21_Witness ==
    /\ Done
    /\ \E p \in PermittedWithForbidden :
          /\ source.httpproxies[p[1]].Routes # <<>>
          /\ CommittedWith(p[1], StatusInvalid, ConflictMsg)
          /\ CommittedWith(p[2], StatusInvalid, ConflictMsg)
          /\ p[1] \in ValidRoots(SourceWithout(p[2]))
          /\ vhosts = <<>>

====
